---- MODULE Spec2Model ----
(***************************************************************************)
(* A model of the NNUE core of sf-nnue-aio: the Position move stack        *)
(* (do_move / undo_move / null moves with the EvalList piece numbers and   *)
(* the DirtyPiece records), the HalfKP feature set, the accumulator, the   *)
(* self-play generator (gensfen) and the training loop (learn).            *)
(*                                                                         *)
(* Zobrist keys are XORs of independent random 64-bit words; a key is      *)
(* modelled as the set of words XOR-ed into it, so that XOR is symmetric   *)
(* difference.  Accumulator columns are sums of weight columns; a column   *)
(* sum is modelled as the signed multiset of feature indices summed.       *)
(***************************************************************************)
EXTENDS Integers, Sequences, FiniteSets, TLC

VARIABLES
  \* ---- Position (src/src/position.cpp) ----
  board,              \* Piece board[SQUARE_NB]
  pieceCount,         \* int pieceCount[PIECE_NB]
  sideToMove,         \* Color
  gamePly,            \* int
  castlingRightsMask, \* int castlingRightsMask[SQUARE_NB], as sets of right bits
  castlingRookSquare, \* Square castlingRookSquare[CASTLING_RIGHT_NB]
  evalList,           \* Eval::EvalList: pieceListFw, pieceListFb, piece_no_list_board
  st,                 \* the StateInfo chain; st[Len(st)] is *st, st[i-1] is st[i].previous
  lastOp,             \* the operation that produced this state
  snaps,              \* the positions saved before each pending do_move / do_null_move
  moves,              \* the moves made by the pending do_moves
  zone,               \* the squares the explored moves may touch
  \* ---- gensfen (src/learn/learner.cpp, MultiThinkGenSfen and SfenWriter) ----
  worker,             \* per generator thread: the locals of thread_worker and its position
  loop_count,         \* MultiThink::loop_count, the global loop counter
  write_minply,       \* MultiThinkGenSfen::write_minply
  write_maxply,       \* MultiThinkGenSfen::write_maxply
  leaf_scores,        \* the values Eval::evaluate can return at the leaf of a PV
  hash,               \* MultiThinkGenSfen::hash, the table of keys already recorded
  sfen_buffers,       \* SfenWriter::sfen_buffers, one buffer per thread
  sfen_buffers_pool,  \* SfenWriter::sfen_buffers_pool, the buffers waiting for the file worker
  sw_mutex,           \* SfenWriter::mutex, as the set of its holders
  fs,                 \* the records written to the output file
  finished,           \* SfenWriter::finished
  \* ---- learn (src/learn/learner.cpp, LearnerThink and SfenReader) ----
  lthread,            \* per training thread: where it is in LearnerThink::thread_worker
  nn_mutex,           \* LearnerThink::nn_mutex: the exclusive holder and the shared holders
  sr,                 \* SfenReader: the counters, stop_flag, the files, the pool and its mutex
  learn,              \* LearnerThink: the newbob fields, stop_flag, epoch, the loss tasks
  nn,                 \* Eval::NNUE: the live parameters, the saved networks, the rate scale
  \* ---- trainer (src/src/eval/nnue/nnue_accumulator.h, Trainer<AffineTransform>) ----
  trainer,            \* one weight and one bias of the trainer, and the last operation
  target_layer,       \* the quantized weight and bias of the layer it trains
  \* ---- learn shuffle (src/learn/learner.cpp, shuffle_write) ----
  shuf                \* the locals of shuffle_write, the input files and the output

posVars == <<board, pieceCount, sideToMove, gamePly, castlingRightsMask,
             castlingRookSquare, evalList, st, lastOp, snaps, moves, zone>>

genVars == <<worker, loop_count, write_minply, write_maxply, leaf_scores, hash, sfen_buffers,
             sfen_buffers_pool, sw_mutex, fs, finished>>

learnVars == <<lthread, nn_mutex, sr, learn, nn>>

toolVars == <<trainer, target_layer, shuf>>

vars == <<posVars, genVars, learnVars, toolVars>>

(***************************************************************************)
(* Bounds of the model.                                                    *)
(***************************************************************************)
MaxPly == 3          \* do_move / do_null_move nesting explored from the root

(***************************************************************************)
(* types.h                                                                 *)
(***************************************************************************)
WHITE == 0
BLACK == 1
Colors == {WHITE, BLACK}

PAWN == 1
KNIGHT == 2
BISHOP == 3
ROOK == 4
QUEEN == 5
KING == 6

NO_PIECE == 0
SQUARE_NB == 64
SQ_NONE == 64
Squares == 0 .. 63

WHITE_OO == 1
WHITE_OOO == 2
BLACK_OO == 4
BLACK_OOO == 8

PIECE_NUMBER_KING == 30
PIECE_NUMBER_NB == 32

make_piece(c, pt) == c * 8 + pt
type_of(pc) == pc % 8
color_of(pc) == pc \div 8
file_of(s) == s % 8
rank_of(s) == s \div 8
make_square(f, r) == r * 8 + f
relative_square(c, s) == IF c = WHITE THEN s ELSE make_square(file_of(s), 7 - rank_of(s))
relative_rank(c, s) == IF c = WHITE THEN rank_of(s) ELSE 7 - rank_of(s)
pawn_push(c) == IF c = WHITE THEN 8 ELSE -8
Inv(sq) == SQUARE_NB - 1 - sq
Opp(c) == 1 - c

Abs(x) == IF x < 0 THEN -x ELSE x

(***************************************************************************)
(* Zobrist words (Position::init): every psq[pc][s], enpassant[f],         *)
(* castling[cr], side and noPawns is an independent random word, named     *)
(* here by a distinct integer.  Xor is the XOR of two keys.                *)
(***************************************************************************)
ZobristPsq(pc, s) == pc * 64 + s
ZobristEnpassant(f) == 1024 + f
ZobristCastling(cr) == 1040 + cr
ZobristSide == 1060
ZobristNoPawns == 1061

Xor(a, b) == (a \ b) \cup (b \ a)

\* The integer value of a set of castling-right bits (the array index cr).
RightsValue(cr) ==
  (IF WHITE_OO \in cr THEN WHITE_OO ELSE 0) + (IF WHITE_OOO \in cr THEN WHITE_OOO ELSE 0)
  + (IF BLACK_OO \in cr THEN BLACK_OO ELSE 0) + (IF BLACK_OOO \in cr THEN BLACK_OOO ELSE 0)

(***************************************************************************)
(* BonaPiece (evaluate.h) and kpp_board_index (evaluate.cpp).              *)
(***************************************************************************)
BONA_PIECE_ZERO == 0
fe_end == 641
f_king == 641
e_king == 705

\* kpp_board_index[pc].fw / .fb: the first BonaPiece of piece pc seen from
\* White (fw) and from Black (fb); f_ is the perspective's own piece.
kpp_board_index(pc) ==
  LET base(pt) == 1 + 128 * (pt - 1)   \* f_pawn = 1, f_knight = 129, ... f_king = 641
  IN  IF type_of(pc) = 0 \/ type_of(pc) = 7
        THEN [fw |-> BONA_PIECE_ZERO, fb |-> BONA_PIECE_ZERO]
      ELSE IF color_of(pc) = WHITE
        THEN [fw |-> base(type_of(pc)), fb |-> base(type_of(pc)) + SQUARE_NB]
        ELSE [fw |-> base(type_of(pc)) + SQUARE_NB, fb |-> base(type_of(pc))]

(***************************************************************************)
(* Eval::EvalList (evaluate.h).  pieceListFw / pieceListFb have            *)
(* PIECE_NUMBER_NB entries; an access with piece number PIECE_NUMBER_NB    *)
(* is outside the arrays (undefined behaviour), recorded in oob.           *)
(***************************************************************************)
set_piece_on_board(el, piece_no, fw, fb, sq) ==
  IF piece_no >= PIECE_NUMBER_NB
    THEN [el EXCEPT !.oob = TRUE, !.no[sq] = piece_no]
    ELSE [el EXCEPT !.fw[piece_no] = fw, !.fb[piece_no] = fb, !.no[sq] = piece_no]

put_piece(el, piece_no, sq, pc) ==
  set_piece_on_board(el, piece_no, kpp_board_index(pc).fw + sq,
                     kpp_board_index(pc).fb + Inv(sq), sq)

bona_piece(el, piece_no) ==
  IF piece_no >= PIECE_NUMBER_NB
    THEN [fw |-> BONA_PIECE_ZERO, fb |-> BONA_PIECE_ZERO]
    ELSE [fw |-> el.fw[piece_no], fb |-> el.fb[piece_no]]

\* evalList.piece_no_list_board[sq] = PIECE_NUMBER_NB
clear_piece_no(el, sq) == [el EXCEPT !.no[sq] = PIECE_NUMBER_NB]

piece_no_of(el, sq) == el.no[sq]

(***************************************************************************)
(* Moves.  A move is [from, to, type, promo]; castling is encoded as       *)
(* "king captures friendly rook".                                          *)
(***************************************************************************)
Move(from, to, type, promo) == [from |-> from, to |-> to, type |-> type, promo |-> promo]

\* The destination squares of a castling move (do_castling's rfrom, rto, to).
CastlingSquares(us, from, to) ==
  LET kingSide == to > from
  IN  [rfrom |-> to,
       rto   |-> relative_square(us, IF kingSide THEN 5 ELSE 3),   \* SQ_F1 : SQ_D1
       to    |-> relative_square(us, IF kingSide THEN 6 ELSE 2)]   \* SQ_G1 : SQ_C1

(***************************************************************************)
(* Position::do_castling<Do>: the board part.  remove_piece does not clear *)
(* board[]; both squares are cleared before either piece is put.           *)
(***************************************************************************)
do_castling_board(Do, b, us, from, to) ==
  LET c  == CastlingSquares(us, from, to)
      b1 == [b EXCEPT ![IF Do THEN from ELSE c.to] = NO_PIECE]
      b2 == [b1 EXCEPT ![IF Do THEN c.rfrom ELSE c.rto] = NO_PIECE]
      b3 == [b2 EXCEPT ![IF Do THEN c.to ELSE from] = make_piece(us, KING)]
  IN  [b3 EXCEPT ![IF Do THEN c.rto ELSE c.rfrom] = make_piece(us, ROOK)]

(***************************************************************************)
(* Position::do_castling<Do>: the EvalList part, in the order of the code. *)
(***************************************************************************)
do_castling_eval(Do, el, us, from, to) ==
  LET c         == CastlingSquares(us, from, to)
      piece_no0 == IF Do THEN piece_no_of(el, from) ELSE piece_no_of(el, c.to)
      piece_no1 == IF Do THEN piece_no_of(el, to) ELSE piece_no_of(el, c.rto)
  IN  IF Do
        THEN put_piece(clear_piece_no(
                 put_piece(clear_piece_no(el, from), piece_no0, c.to, make_piece(us, KING)),
                 c.rfrom), piece_no1, c.rto, make_piece(us, ROOK))
        ELSE put_piece(clear_piece_no(
                 put_piece(clear_piece_no(el, c.to), piece_no0, from, make_piece(us, KING)),
                 c.rto), piece_no1, c.rfrom, make_piece(us, ROOK))

\* do_castling<true> leaving dirty_num at the 1 do_move starts with.
do_castling_dirty_OnePiece(el, us, from, to) ==
  LET c         == CastlingSquares(us, from, to)
      piece_no0 == piece_no_of(el, from)
      piece_no1 == piece_no_of(el, to)
      el1       == put_piece(clear_piece_no(el, from), piece_no0, c.to, make_piece(us, KING))
      el2       == put_piece(clear_piece_no(el1, c.rfrom), piece_no1, c.rto, make_piece(us, ROOK))
  IN  [dirty_num |-> 1,
       pieceNo |-> <<piece_no0, piece_no1>>,
       changed_piece |-> << [old_piece |-> bona_piece(el, piece_no0),
                             new_piece |-> bona_piece(el1, piece_no0)],
                            [old_piece |-> bona_piece(el1, piece_no1),
                             new_piece |-> bona_piece(el2, piece_no1)] >>]

\* The DirtyPiece record do_castling<true> writes.
do_castling_dirty(el, us, from, to) ==
  LET c         == CastlingSquares(us, from, to)
      piece_no0 == piece_no_of(el, from)
      piece_no1 == piece_no_of(el, to)
      el1       == put_piece(clear_piece_no(el, from), piece_no0, c.to, make_piece(us, KING))
      el2       == put_piece(clear_piece_no(el1, c.rfrom), piece_no1, c.rto, make_piece(us, ROOK))
  IN  [dirty_num |-> 2,
       pieceNo |-> <<piece_no0, piece_no1>>,
       changed_piece |-> << [old_piece |-> bona_piece(el, piece_no0),
                             new_piece |-> bona_piece(el1, piece_no0)],
                            [old_piece |-> bona_piece(el1, piece_no1),
                             new_piece |-> bona_piece(el2, piece_no1)] >>]

(***************************************************************************)
(* Attacks and legal moves (bitboard.h, movegen.cpp).                      *)
(***************************************************************************)
KnightDirs == {<<1, 2>>, <<2, 1>>, <<-1, 2>>, <<-2, 1>>, <<1, -2>>, <<2, -1>>, <<-1, -2>>, <<-2, -1>>}
RookDirs == {<<1, 0>>, <<-1, 0>>, <<0, 1>>, <<0, -1>>}
BishopDirs == {<<1, 1>>, <<-1, 1>>, <<1, -1>>, <<-1, -1>>}

\* The squares k <= maxSteps steps from s in a direction of dirs that are on
\* the board and have only empty squares between s and them.
Reach(b, s, dirs, maxSteps) ==
  LET On(d, k) == file_of(s) + k * d[1] \in 0 .. 7 /\ rank_of(s) + k * d[2] \in 0 .. 7
      Sq(d, k) == make_square(file_of(s) + k * d[1], rank_of(s) + k * d[2])
  IN  UNION { { Sq(d, k) : k \in { k \in 1 .. maxSteps :
                                     /\ On(d, k)
                                     /\ \A j \in 1 .. k - 1 : b[Sq(d, j)] = NO_PIECE } }
              : d \in dirs }

\* attacks_bb / pawn_attacks_bb: the squares the piece on s attacks.
attacks_from(b, s) ==
  LET pc == b[s]
      pt == type_of(pc)
  IN  IF pt = PAWN THEN Reach(b, s, {<<-1, pawn_push(color_of(pc)) \div 8>>,
                                     <<1, pawn_push(color_of(pc)) \div 8>>}, 1)
      ELSE IF pt = KNIGHT THEN Reach(b, s, KnightDirs, 1)
      ELSE IF pt = BISHOP THEN Reach(b, s, BishopDirs, 7)
      ELSE IF pt = ROOK THEN Reach(b, s, RookDirs, 7)
      ELSE IF pt = QUEEN THEN Reach(b, s, RookDirs \cup BishopDirs, 7)
      ELSE IF pt = KING THEN Reach(b, s, RookDirs \cup BishopDirs, 1)
      ELSE {}

\* attackers_to(s) & pieces(c) is not empty.
attacked(b, s, c) ==
  \E a \in Squares : b[a] # NO_PIECE /\ color_of(b[a]) = c /\ s \in attacks_from(b, a)

\* square<KING>(c)
king_square(b, c) == CHOOSE s \in Squares : b[s] = make_piece(c, KING)

NORMAL == 0
PROMOTION == 16384      \* 1 << 14
ENPASSANT == 32768      \* 2 << 14
CASTLING == 49152       \* 3 << 14

PromotionTypes == {KNIGHT, QUEEN}   \* the promotion pieces explored

(***************************************************************************)
(* The board writes of do_move (move_piece, remove_piece / put_piece on    *)
(* promotion, board[capsq] = NO_PIECE on en passant, do_castling<true>).   *)
(***************************************************************************)
do_move_board(b, us, m) ==
  IF m.type = CASTLING THEN do_castling_board(TRUE, b, us, m.from, m.to)
  ELSE LET b1 == IF m.type = ENPASSANT
                   THEN [b EXCEPT ![m.to - pawn_push(us)] = NO_PIECE] ELSE b
           b2 == [b1 EXCEPT ![m.from] = NO_PIECE, ![m.to] = b[m.from]]
       IN  IF m.type = PROMOTION
             THEN [b2 EXCEPT ![m.to] = make_piece(us, m.promo)] ELSE b2

\* The pseudo-legal moves of the side to move.
pseudo_legal(b, us, cr, rookSq, ep) ==
  LET them == Opp(us)
      Own(s) == b[s] # NO_PIECE /\ color_of(b[s]) = us
      Enemy(s) == b[s] # NO_PIECE /\ color_of(b[s]) = them
      up == pawn_push(us)
      PieceMoves ==
        UNION { { Move(f, t, NORMAL, 0) : t \in { t \in attacks_from(b, f) : ~Own(t) } }
                : f \in { f \in Squares : Own(f) /\ type_of(b[f]) # PAWN } }
      Pawns == { f \in Squares : Own(f) /\ type_of(b[f]) = PAWN }
      PawnTargets(f) ==
        { t \in Squares :
            \/ t = f + up /\ b[t] = NO_PIECE
            \/ /\ t = f + 2 * up /\ relative_rank(us, f) = 1
               /\ b[f + up] = NO_PIECE /\ b[t] = NO_PIECE
            \/ t \in attacks_from(b, f) /\ Enemy(t) }
      PawnMoves ==
        UNION { UNION { IF relative_rank(us, t) = 7
                          THEN { Move(f, t, PROMOTION, pt) : pt \in PromotionTypes }
                          ELSE { Move(f, t, NORMAL, 0) }
                        : t \in PawnTargets(f) } : f \in Pawns }
      EpMoves ==
        { Move(f, ep, ENPASSANT, 0) : f \in { f \in Pawns : ep \in attacks_from(b, f) } }
      CastlingMoves ==
        { Move(king_square(b, us), rookSq[r], CASTLING, 0) :
            r \in { r \in cr : (r \in {WHITE_OO, WHITE_OOO}) = (us = WHITE) } }
  IN  PieceMoves \cup PawnMoves \cup EpMoves \cup CastlingMoves

\* Position::legal: the move leaves the own king safe; castling needs an
\* unimpeded path and a king path that is not attacked.
legal(b, us, m) ==
  LET them == Opp(us)
      Span(x, y) == { s \in Squares : (x <= s /\ s <= y) \/ (y <= s /\ s <= x) }
      CastlingOk ==
        LET c == CastlingSquares(us, m.from, m.to)
        IN  /\ \A s \in (Span(m.from, c.to) \cup Span(c.rfrom, c.rto)) \ {m.from, m.to} :
                 b[s] = NO_PIECE
            /\ \A s \in Span(m.from, c.to) : ~attacked(b, s, them)
      nb == do_move_board(b, us, m)
  IN  /\ m.type = CASTLING => CastlingOk
      /\ ~attacked(nb, king_square(nb, us), them)

(***************************************************************************)
(* StateInfo.  The accumulator holds, per perspective, the sum of the      *)
(* weight columns of the active features, as a function from feature index *)
(* to its (non-zero) multiplicity.                                         *)
(***************************************************************************)
NoDirtyPiece ==
  LET z == [fw |-> BONA_PIECE_ZERO, fb |-> BONA_PIECE_ZERO]
  IN  [dirty_num |-> 0, pieceNo |-> <<0, 0>>,
       changed_piece |-> << [old_piece |-> z, new_piece |-> z],
                            [old_piece |-> z, new_piece |-> z] >>]

NoAccumulator ==
  [computed_accumulation |-> FALSE, computed_score |-> FALSE,
   accumulation |-> << <<>>, <<>> >>]

\* The Position as one value: what do_move / undo_move read and write.
Pos ==
  [board |-> board, pieceCount |-> pieceCount, sideToMove |-> sideToMove,
   gamePly |-> gamePly, evalList |-> evalList, st |-> st]

Min(a, b) == IF a < b THEN a ELSE b

\* repetition_of looking back rule50 plies, across null moves.
repetition_of_AcrossNull(chain, key, rule50, pliesFromNull) ==
  LET n    == Len(chain) + 1
      end  == rule50
      hits == { i \in 4 .. end : i % 2 = 0 /\ n - i >= 1 /\ chain[n - i].key = key }
      i    == CHOOSE x \in hits : \A y \in hits : x <= y
  IN  IF hits = {} THEN 0
      ELSE IF chain[n - i].repetition # 0 THEN -i ELSE i

\* The repetition field do_move computes for the new state n of chain.
repetition_of(chain, key, rule50, pliesFromNull) ==
  LET n    == Len(chain) + 1
      end  == Min(rule50, pliesFromNull)
      hits == { i \in 4 .. end : i % 2 = 0 /\ n - i >= 1 /\ chain[n - i].key = key }
      i    == CHOOSE x \in hits : \A y \in hits : x <= y
  IN  IF hits = {} THEN 0
      ELSE IF chain[n - i].repetition # 0 THEN -i ELSE i

(***************************************************************************)
(* Position::do_move(m, newSt).                                            *)
(***************************************************************************)
do_move(P, mask, m) ==
  LET us        == P.sideToMove
      them      == Opp(us)
      old       == P.st[Len(P.st)]
      from      == m.from
      pc        == P.board[from]
      castle    == m.type = CASTLING
      c         == CastlingSquares(us, from, m.to)
      to        == IF castle THEN c.to ELSE m.to
      onTo      == IF m.type = ENPASSANT THEN make_piece(them, PAWN) ELSE P.board[m.to]
      captured  == IF castle THEN NO_PIECE ELSE onTo
      capsq     == IF m.type = ENPASSANT THEN to - pawn_push(us) ELSE to
      promotion == make_piece(us, m.promo)
      nb        == do_move_board(P.board, us, m)
      \* ---- piece counts ----
      cnt1      == IF captured # NO_PIECE
                     THEN [P.pieceCount EXCEPT ![captured] = @ - 1] ELSE P.pieceCount
      cnt2      == IF m.type = PROMOTION
                     THEN [cnt1 EXCEPT ![pc] = @ - 1, ![promotion] = @ + 1] ELSE cnt1
      \* ---- EvalList and DirtyPiece ----
      el0       == P.evalList
      piece_no1 == piece_no_of(el0, capsq)
      elc       == IF captured # NO_PIECE
                     THEN clear_piece_no(set_piece_on_board(el0, piece_no1, BONA_PIECE_ZERO,
                                                            BONA_PIECE_ZERO, capsq), capsq)
                     ELSE el0
      piece_no0 == piece_no_of(elc, from)
      elm       == put_piece(clear_piece_no(elc, from), piece_no0, to, pc)
      elp       == IF m.type = PROMOTION /\ type_of(pc) = PAWN
                     THEN put_piece(elm, piece_no_of(elm, to), to, promotion) ELSE elm
      dpMove    == [dirty_num |-> IF captured # NO_PIECE THEN 2 ELSE 1,
                    pieceNo |-> <<piece_no0,
                                  IF captured # NO_PIECE THEN piece_no1 ELSE 0>>,
                    changed_piece |->
                      << [old_piece |-> bona_piece(elc, piece_no0),
                          new_piece |-> bona_piece(elp, piece_no_of(elm, to))],
                         IF captured # NO_PIECE
                           THEN [old_piece |-> bona_piece(el0, piece_no1),
                                 new_piece |-> bona_piece(elc, piece_no1)]
                           ELSE NoDirtyPiece.changed_piece[2] >>]
      el        == IF castle THEN do_castling_eval(TRUE, el0, us, from, m.to) ELSE elp
      dp        == IF castle THEN do_castling_dirty(el0, us, from, m.to) ELSE dpMove
      \* ---- keys ----
      W(p, s)   == {ZobristPsq(p, s)}
      k0        == Xor(old.key, {ZobristSide})
      k1        == IF castle THEN Xor(k0, Xor(W(onTo, c.rfrom), W(onTo, c.rto))) ELSE k0
      k2        == IF captured # NO_PIECE THEN Xor(k1, W(captured, capsq)) ELSE k1
      k3        == Xor(k2, Xor(W(pc, from), W(pc, to)))
      k4        == IF old.epSquare # SQ_NONE
                     THEN Xor(k3, {ZobristEnpassant(file_of(old.epSquare))}) ELSE k3
      \* if (st->castlingRights && castlingRightsMask[from] | castlingRightsMask[to])
      crTest    == old.castlingRights # {} /\ (mask[from] \cup mask[to]) # {}
      cr        == IF crTest THEN old.castlingRights \ (mask[from] \cup mask[to])
                   ELSE old.castlingRights
      k5        == IF crTest
                     THEN Xor(Xor(k4, {ZobristCastling(RightsValue(old.castlingRights))}),
                              {ZobristCastling(RightsValue(cr))})
                     ELSE k4
      \* (to ^ from) == 16
      xor16     == /\ file_of(to) = file_of(from)
                   /\ {rank_of(to), rank_of(from)} \in {{0, 2}, {1, 3}, {4, 6}, {5, 7}}
      setEp     == /\ type_of(pc) = PAWN /\ xor16
                   /\ \E s \in Reach(nb, to - pawn_push(us),
                                     {<<-1, pawn_push(us) \div 8>>, <<1, pawn_push(us) \div 8>>}, 1) :
                        nb[s] = make_piece(them, PAWN)
      promo     == type_of(pc) = PAWN /\ ~setEp /\ m.type = PROMOTION
      k6        == IF setEp THEN Xor(k5, {ZobristEnpassant(file_of(to - pawn_push(us)))})
                   ELSE IF promo THEN Xor(k5, Xor(W(pc, to), W(promotion, to)))
                   ELSE k5
      pk1       == IF captured # NO_PIECE /\ type_of(captured) = PAWN
                     THEN Xor(old.pawnKey, W(captured, capsq)) ELSE old.pawnKey
      pk2       == IF promo THEN Xor(pk1, W(pc, to)) ELSE pk1
      pk3       == IF type_of(pc) = PAWN THEN Xor(pk2, Xor(W(pc, from), W(pc, to))) ELSE pk2
      mk1       == IF captured # NO_PIECE
                     THEN Xor(old.materialKey, W(captured, cnt1[captured])) ELSE old.materialKey
      mk2       == IF promo
                     THEN Xor(mk1, Xor(W(promotion, cnt2[promotion] - 1), W(pc, cnt2[pc])))
                     ELSE mk1
      rule50    == IF captured # NO_PIECE \/ type_of(pc) = PAWN THEN 0 ELSE old.rule50 + 1
      newSt     == [pawnKey |-> pk3, materialKey |-> mk2, castlingRights |-> cr,
                    rule50 |-> rule50, pliesFromNull |-> old.pliesFromNull + 1,
                    epSquare |-> IF setEp THEN to - pawn_push(us) ELSE SQ_NONE,
                    key |-> k6, capturedPiece |-> captured,
                    repetition |-> repetition_of(P.st, k6, rule50, old.pliesFromNull + 1),
                    accumulator |-> NoAccumulator, dirtyPiece |-> dp]
  IN  [board |-> nb, pieceCount |-> cnt2, sideToMove |-> them,
       gamePly |-> P.gamePly + 1, evalList |-> el, st |-> Append(P.st, newSt)]

(***************************************************************************)
(* Position::undo_move(m).                                                 *)
(***************************************************************************)
undo_move(P, m) ==
  LET us        == Opp(P.sideToMove)
      cur       == P.st[Len(P.st)]
      from      == m.from
      to        == m.to
      pawn      == make_piece(us, PAWN)
      pc        == IF m.type = PROMOTION THEN pawn ELSE P.board[to]
      captured  == cur.capturedPiece
      capsq     == IF m.type = ENPASSANT THEN to - pawn_push(us) ELSE to
      piece_no0 == cur.dirtyPiece.pieceNo[1]
      piece_no1 == cur.dirtyPiece.pieceNo[2]
      \* ---- promotion: the pawn is put back on the promotion square first ----
      cnt1      == IF m.type = PROMOTION
                     THEN [P.pieceCount EXCEPT ![P.board[to]] = @ - 1, ![pawn] = @ + 1]
                     ELSE P.pieceCount
      el1       == IF m.type = PROMOTION THEN put_piece(P.evalList, piece_no0, to, pawn)
                   ELSE P.evalList
      \* ---- move_piece(to, from) and the captured piece ----
      b2        == [P.board EXCEPT ![to] = NO_PIECE, ![from] = pc]
      el2       == clear_piece_no(put_piece(el1, piece_no0, from, pc), to)
      b3        == IF captured # NO_PIECE THEN [b2 EXCEPT ![capsq] = captured] ELSE b2
      cnt3      == IF captured # NO_PIECE THEN [cnt1 EXCEPT ![captured] = @ + 1] ELSE cnt1
      el3       == IF captured # NO_PIECE THEN put_piece(el2, piece_no1, capsq, captured)
                   ELSE el2
      castle    == m.type = CASTLING
  IN  [board      |-> IF castle THEN do_castling_board(FALSE, P.board, us, from, to) ELSE b3,
       pieceCount |-> IF castle THEN P.pieceCount ELSE cnt3,
       sideToMove |-> us,
       gamePly    |-> P.gamePly - 1,
       evalList   |-> IF castle THEN do_castling_eval(FALSE, P.evalList, us, from, to) ELSE el3,
       st         |-> SubSeq(P.st, 1, Len(P.st) - 1)]

(***************************************************************************)
(* Position::do_null_move(newSt) and Position::undo_null_move().           *)
(***************************************************************************)
\* do_null_move leaving the en passant term in the key.
do_null_move_KeepEp(P) ==
  LET old   == P.st[Len(P.st)]
      k1    == old.key
      newSt == [old EXCEPT !.key = Xor(k1, {ZobristSide}),
                           !.epSquare = SQ_NONE,
                           !.accumulator.computed_score = FALSE,
                           !.rule50 = @ + 1,
                           !.pliesFromNull = 0,
                           !.repetition = 0]
  IN  [P EXCEPT !.st = Append(P.st, newSt), !.sideToMove = Opp(P.sideToMove)]

do_null_move(P) ==
  LET old   == P.st[Len(P.st)]
      k1    == IF old.epSquare # SQ_NONE
                 THEN Xor(old.key, {ZobristEnpassant(file_of(old.epSquare))}) ELSE old.key
      newSt == [old EXCEPT !.key = Xor(k1, {ZobristSide}),
                           !.epSquare = SQ_NONE,
                           !.accumulator.computed_score = FALSE,
                           !.rule50 = @ + 1,
                           !.pliesFromNull = 0,
                           !.repetition = 0]
  IN  [P EXCEPT !.st = Append(P.st, newSt), !.sideToMove = Opp(P.sideToMove)]

undo_null_move(P) ==
  [P EXCEPT !.st = SubSeq(P.st, 1, Len(P.st) - 1), !.sideToMove = Opp(P.sideToMove)]

(***************************************************************************)
(* Position::set(fen): the position, its EvalList and its first StateInfo. *)
(* places is the piece placement (square -> piece), rooks the squares of   *)
(* the rooks that may still castle.  The kings get the two reserved piece  *)
(* numbers, every other piece the next free one in FEN order (rank 8 to    *)
(* rank 1, file a to file h).                                              *)
(***************************************************************************)
set_castling_right(b, rooks) ==
  LET Right(r) == LET c == color_of(b[r])
                      kingSide == king_square(b, c) < r
                  IN  IF c = WHITE THEN (IF kingSide THEN WHITE_OO ELSE WHITE_OOO)
                      ELSE (IF kingSide THEN BLACK_OO ELSE BLACK_OOO)
      rights == { Right(r) : r \in rooks }
  IN  [castlingRights |-> rights,
       castlingRightsMask |->
         [s \in Squares |->
            { cr \in rights : \E r \in rooks :
                 cr = Right(r) /\ (s = r \/ s = king_square(b, color_of(b[r]))) }],
       castlingRookSquare |->
         [cr \in rights |-> CHOOSE r \in rooks : Right(r) = cr]]

set_state(b, cnt, stm, rights, epSquare) ==
  LET Occ == { s \in Squares : b[s] # NO_PIECE }
      k0  == { ZobristPsq(b[s], s) : s \in Occ }
      ke  == IF epSquare # SQ_NONE THEN Xor(k0, {ZobristEnpassant(file_of(epSquare))}) ELSE k0
      k1  == IF stm = BLACK THEN Xor(ke, {ZobristSide}) ELSE ke
  IN  [key         |-> Xor(k1, {ZobristCastling(RightsValue(rights))}),
       pawnKey     |-> Xor({ZobristNoPawns},
                           { ZobristPsq(b[s], s) : s \in { s \in Occ : type_of(b[s]) = PAWN } }),
       materialKey |-> UNION { { ZobristPsq(pc, n) : n \in 0 .. cnt[pc] - 1 } : pc \in DOMAIN cnt }]

set(places, stm, rooks) ==
  LET b     == [s \in Squares |-> IF s \in DOMAIN places THEN places[s] ELSE NO_PIECE]
      cnt   == [pc \in 0 .. 15 |-> Cardinality({ s \in Squares : b[s] = pc /\ pc # NO_PIECE })]
      Fen(s) == (7 - rank_of(s)) * 8 + file_of(s)
      Others == { s \in Squares : b[s] # NO_PIECE /\ type_of(b[s]) # KING }
      No(s)  == IF b[s] = make_piece(WHITE, KING) THEN PIECE_NUMBER_KING
                ELSE IF b[s] = make_piece(BLACK, KING) THEN PIECE_NUMBER_KING + 1
                ELSE Cardinality({ t \in Others : Fen(t) < Fen(s) })
      SqOf(n) == CHOOSE s \in Squares : b[s] # NO_PIECE /\ No(s) = n
      Used   == { No(s) : s \in { s \in Squares : b[s] # NO_PIECE } }
      el     == [fw  |-> [n \in 0 .. PIECE_NUMBER_NB - 1 |->
                            IF n \in Used THEN kpp_board_index(b[SqOf(n)]).fw + SqOf(n)
                            ELSE BONA_PIECE_ZERO],
                 fb  |-> [n \in 0 .. PIECE_NUMBER_NB - 1 |->
                            IF n \in Used THEN kpp_board_index(b[SqOf(n)]).fb + Inv(SqOf(n))
                            ELSE BONA_PIECE_ZERO],
                 no  |-> [s \in Squares |-> IF b[s] # NO_PIECE THEN No(s) ELSE PIECE_NUMBER_NB],
                 oob |-> FALSE]
      cr     == set_castling_right(b, rooks)
      keys   == set_state(b, cnt, stm, cr.castlingRights, SQ_NONE)
      si     == [pawnKey |-> keys.pawnKey, materialKey |-> keys.materialKey,
                 castlingRights |-> cr.castlingRights, rule50 |-> 0, pliesFromNull |-> 0,
                 epSquare |-> SQ_NONE, key |-> keys.key, capturedPiece |-> NO_PIECE,
                 repetition |-> 0, accumulator |-> NoAccumulator, dirtyPiece |-> NoDirtyPiece]
  IN  [board |-> b, pieceCount |-> cnt, sideToMove |-> stm,
       gamePly |-> IF stm = BLACK THEN 1 ELSE 0,
       evalList |-> el, st |-> <<si>>,
       castlingRightsMask |-> cr.castlingRightsMask,
       castlingRookSquare |-> cr.castlingRookSquare]

(***************************************************************************)
(* The positions explored.  Each is a FEN the engine accepts (position     *)
(* fen ...), given as piece placement, side to move and castling rooks;    *)
(* zone is the set of destination squares of the moves explored from it    *)
(* and extra the additional depth explored.                                *)
(*   1  r3k2r/8/8/8/8/8/8/R3K2R w KQkq      castling, rook captures        *)
(*   2  6k1/3p4/8/2P5/3p4/8/4P3/6K1 w -     double pushes, en passant      *)
(*   3  r1n5/1P4k1/8/8/8/8/p7/6K1 w -       promotions, with capture       *)
(*   4  4k1n1/8/8/8/8/8/8/4K1N1 w -         knights going back and forth   *)
(*   5  4k3/p7/8/8/8/8/8/5K1R w K           castling, rook goes to f1      *)
(*   6  2rk4/8/8/8/8/8/8/4K1R1 w Kq         castling, king goes to g1 / c8 *)
(***************************************************************************)
Scenarios ==
  << [places |-> (0 :> 4 @@ 4 :> 6 @@ 7 :> 4 @@ 56 :> 12 @@ 60 :> 14 @@ 63 :> 12),
      stm |-> WHITE, rooks |-> {0, 7, 56, 63}, zone |-> {3, 5, 56, 63, 59, 61}, extra |-> 0],
     [places |-> (6 :> 6 @@ 12 :> 1 @@ 34 :> 1 @@ 62 :> 14 @@ 51 :> 9 @@ 27 :> 9),
      stm |-> WHITE, rooks |-> {}, zone |-> {19, 20, 28, 35, 42, 43}, extra |-> 0],
     [places |-> (6 :> 6 @@ 49 :> 1 @@ 54 :> 14 @@ 56 :> 12 @@ 58 :> 10 @@ 8 :> 9),
      stm |-> WHITE, rooks |-> {}, zone |-> {0, 56, 57, 58}, extra |-> 0],
     [places |-> (4 :> 6 @@ 6 :> 2 @@ 60 :> 14 @@ 62 :> 10),
      stm |-> WHITE, rooks |-> {}, zone |-> {6, 21, 45, 62}, extra |-> 2],
     [places |-> (5 :> 6 @@ 7 :> 4 @@ 60 :> 14 @@ 48 :> 9),
      stm |-> WHITE, rooks |-> {7}, zone |-> {4, 5, 6, 32, 40}, extra |-> 0],
     [places |-> (4 :> 6 @@ 6 :> 4 @@ 59 :> 14 @@ 58 :> 12),
      stm |-> WHITE, rooks |-> {6, 58}, zone |-> {5, 7, 60, 61}, extra |-> 0] >>

(***************************************************************************)
(* gensfen: the self-play generator (src/learn/learner.cpp).               *)
(*                                                                         *)
(* The game a worker plays is the environment of the generator: what the   *)
(* search returns, whether the position is a draw or has no legal move,    *)
(* its key and whether a random move is played are inputs of each ply.     *)
(***************************************************************************)
\* Bound: the number of records asked for (loop_max).
MaxLoop == 2

\* The generator threads, 0 .. Options["Threads"] - 1.
GenThreads == DOMAIN worker

\* The options of gensfen: loop and eval_limit.
loop_max == MaxLoop
eval_limit == 3000

\* The value get_next_loop_count returns when the counter is exhausted (the
\* largest integer of the model stands for 2^64 - 1).
UINT64_MAX == 2147483647

\* SfenWriter::SFEN_WRITE_SIZE (5000 in the source, scaled down) and
\* GENSFEN_HASH_SIZE (64M in the source, scaled down; a power of two).
SFEN_WRITE_SIZE == 2
GENSFEN_HASH_SIZE == 1

\* Position::is_draw(ply) needs rule50 > 99 or a repetition at a distance
\* >= 4 and < ply: from the start position no draw is seen before ply 5.
MinDrawPly == 5

\* The inputs of one ply: draw is 0 (no draw), 1 (is_draw(ply) only) or 2
\* (is_draw(0) too), value1 is what the search returns for the side to move,
\* score the leaf evaluation, key the position's key, random whether a
\* random move is played.  The inputs a branch does not read are fixed.
SearchValues == {0 - eval_limit, 0, eval_limit}
LeafScores == {40}
Keys == 1 .. 2
PlyInput(draw, no_moves, value1, key, score, random) ==
  [draw |-> draw, no_moves |-> no_moves, value1 |-> value1,
   key |-> key, score |-> score, random |-> random]
PlyInputs ==
  { PlyInput(d, FALSE, 0, 1, 40, FALSE) : d \in 1 .. 2 }
  \cup { PlyInput(0, TRUE, 0, 1, 40, FALSE) }
  \cup { PlyInput(0, FALSE, v, 1, 40, FALSE) : v \in SearchValues \ {0} }
  \cup { PlyInput(0, FALSE, 0, x[1], x[2], x[3]) : x \in Keys \X leaf_scores \X BOOLEAN }

\* PackedSfenValue() followed by the assignments of thread_worker.
PackedSfenValue(score, ply) ==
  [score |-> score, gamePly |-> ply, game_result |-> 0]

\* A buffered record together with the value the search returned for its
\* position (value1 is not a field of PackedSfenValue).
Recorded(psv, value1) == [score |-> psv.score, gamePly |-> psv.gamePly,
                          game_result |-> psv.game_result, value1 |-> value1]

\* The locals of thread_worker and where the thread is: "idle" before the
\* thread starts, "game" at the top of while (!quit), "ply" at the top of the
\* ply loop, "flush" inside flush_psv, "done" after sw.finalize.  end is how
\* the last game ended, isWin and it are the locals of flush_psv (it counts
\* the records the backward walk has not reached), result is the argument
\* flush_psv was called with, wrote counts the records of this game handed to
\* the writer.
NewWorker(pc) ==
  [pc |-> pc, quit |-> FALSE, ply |-> 0, a_psv |-> << >>, end |-> "none",
   isWin |-> 0, it |-> 0, result |-> 0, wrote |-> 0]

\* MultiThink::get_next_loop_count: the next tick of the counter, or
\* UINT64_MAX when loop_max ticks have been handed out.
get_next_loop_count(lc) ==
  IF lc >= loop_max THEN [ret |-> UINT64_MAX, loop_count |-> lc]
  ELSE [ret |-> lc, loop_count |-> lc + 1]

\* SfenWriter::write up to the lock: the record goes to the thread's buffer;
\* a buffer that reaches SFEN_WRITE_SIZE goes to the pool under the mutex,
\* in the steps GenWriteLock and GenWritePush.
sw_write(bufs, pool, thread_id, psv) ==
  [sfen_buffers |-> [bufs EXCEPT ![thread_id] = Append(@, psv)],
   sfen_buffers_pool |-> pool]

\* SfenWriter::finalize that forgets what is left in the thread's buffer.
sw_finalize_Drop(bufs, pool, thread_id) ==
  [sfen_buffers |-> [bufs EXCEPT ![thread_id] = << >>],
   sfen_buffers_pool |-> pool]

\* SfenWriter::finalize: what is left in the thread's buffer goes to the pool.
sw_finalize(bufs, pool, thread_id) ==
  [sfen_buffers |-> [bufs EXCEPT ![thread_id] = << >>],
   sfen_buffers_pool |-> IF bufs[thread_id] # << >> THEN Append(pool, bufs[thread_id])
                         ELSE pool]

\* The state of the generator before gensfen runs.
GenIdle ==
  /\ worker = [t \in {0} |-> NewWorker("idle")]
  /\ loop_count = 0
  /\ write_minply = 16
  /\ write_maxply = 400
  /\ leaf_scores = LeafScores
  /\ hash = [i \in 0 .. GENSFEN_HASH_SIZE - 1 |-> 0]
  /\ sfen_buffers = [t \in {0} |-> << >>]
  /\ sfen_buffers_pool = << >>
  /\ sw_mutex = {}
  /\ fs = << >>
  /\ finished = FALSE

(***************************************************************************)
(* learn: the training loop (src/learn/learner.cpp).                       *)
(*                                                                         *)
(* A network is the number of the parameter update that made it (0 is the  *)
(* network learn starts from); a held-out loss is an integer, and the mean *)
(* of the losses summed since the last save is the pair <<sum, count>>.    *)
(***************************************************************************)
\* Bound: the number of records in the input files.
MaxRecords == 4

\* The training threads: thread 0 updates the parameters, the others only
\* process records.
LearnThreads == DOMAIN lthread

\* Options of learn, in records: one record per mini-batch, one validation
\* record in sfen_for_mse, a loss computed after every update.
mini_batch_size == 1
loss_output_interval == 1
Losses == 1 .. 2

\* SfenReader, in records: a thread buffer holds THREAD_BUFFER_SIZE records,
\* the file worker reads SFEN_READ_SIZE records at a time, and read_for_mse
\* takes sfen_for_mse_size records for the validation set.
THREAD_BUFFER_SIZE == 2
SFEN_READ_SIZE == 4
sfen_for_mse_size == 1

\* file_worker_thread, as a holder of the mutex of packed_sfens_pool.
file_worker_thread == 0 - 1

\* The position keys of the records of the input files; a record that
\* read_for_mse takes has a key of MseKeys.
RecordKeys == 1 .. 2
MseKeys == {1}

\* The names of the directories a network is saved to or restored from: the
\* empty string, Options["EvalDir"], and EvalSaveDir/<dir_number> for
\* dir_number >= 0.
NoDirectory == -2
EvalDir == -1

\* a < b for two means <<sum, count>>.
LossLess(a, b) == a[1] * b[2] < b[1] * a[2]

\* SfenReader::SfenReader with the records of the input files: the counters
\* are zero, no thread has a buffer, the pool is empty, nobody holds the
\* mutex and the file worker is not started.  files is the number of
\* records not yet read, pool the number of buffers in packed_sfens_pool,
\* packed_sfens[t] the number of records left in the buffer of thread t,
\* dropped the number of records read from the files for a chunk that was
\* never completed.
SfenReader(records) ==
  [total_done |-> 0, next_update_weights |-> 0, save_count |-> 0,
   stop_flag |-> FALSE, end_of_files |-> FALSE, files |-> records, pool |-> 0,
   packed_sfens |-> [t \in LearnThreads |-> 0], mutex |-> {},
   sfen_for_mse_hash |-> {}, worker |-> "idle", dropped |-> 0]

\* The state of the training before learn runs.
LearnIdle ==
  /\ lthread = [t \in {0} |-> "idle0"]
  /\ nn_mutex = [exclusive |-> FALSE, shared |-> {}]
  /\ sr = SfenReader(0)
  /\ learn = [stop_flag |-> FALSE, epoch |-> 0, loss_output_count |-> 0,
              eval_save_interval |-> 1, newbob_num_trials |-> 2, trials |-> 2,
              best_loss |-> <<1, 1>>, latest_loss_sum |-> 0, latest_loss_count |-> 0,
              best_nn_directory |-> NoDirectory, dir_number |-> 0,
              queue |-> 0, task_count |-> 0, test_sum |-> 0,
              converged |-> FALSE, rejects |-> 0, best_network |-> 0,
              discount_rate |-> 0, keys |-> {}, losses |-> {}, mse_left |-> 0,
              late |-> {}, added |-> {}]
  /\ nn = [parameters |-> 0, saved |-> << >>, evaldir |-> FALSE, decays |-> 0]

(***************************************************************************)
(* Trainer<AffineTransform>: QuantizeParameters and DequantizeParameters.  *)
(* A float parameter is a multiple of 1 / WeightSteps of the quantization  *)
(* step (1 / kWeightScale for a weight, 1 / kBiasScale for a bias) and is  *)
(* held as that multiple, so that weights_ * kWeightScale is               *)
(* weights_ / WeightSteps and a quantized q is read back as                *)
(* q * WeightSteps.                                                        *)
(***************************************************************************)
\* Bounds: the resolution of the floats, how far beyond kMaxWeightMagnitude
\* the trained weights go (in quantization steps), and the largest bias.
WeightSteps == 4
WeightExcess == 3
MaxBias == 2

\* std::numeric_limits<WeightType>::max() and min() (WeightType is int8_t).
WeightTypeMax == 127
WeightTypeMin == 0 - 128

\* kMaxWeightMagnitude = WeightTypeMax / kWeightScale.
kMaxWeightMagnitude == WeightTypeMax * WeightSteps

\* Round<WeightType>(value): the nearest integer of value = num / WeightSteps,
\* converted to the 8-bit WeightType.
Round(num) == ((((2 * num + WeightSteps) \div (2 * WeightSteps)) - WeightTypeMin) % 256)
                + WeightTypeMin

\* Round<BiasType>(value): BiasType is 32 bits wide, no bias here reaches it.
RoundBias(num) == (2 * num + WeightSteps) \div (2 * WeightSteps)

Max(a, b) == IF a > b THEN a ELSE b

NewTrainer(w, b) == [weights_ |-> w, biases_ |-> b, trained_w |-> w, trained_b |-> b,
                     op |-> "update"]

\* QuantizeParameters without the saturation of the weights.
QuantizeParameters_NoClip(T, L) ==
  [trainer |-> [T EXCEPT !.op = "quantize"],
   target_layer |-> [L EXCEPT !.biases_ = RoundBias(T.biases_),
                              !.weights_ = Round(T.weights_)]]

\* QuantizeParameters: the weight is saturated in place, then bias and
\* weight are scaled and rounded into the layer.
QuantizeParameters(T, L) ==
  LET w == Max(0 - kMaxWeightMagnitude, Min(kMaxWeightMagnitude, T.weights_))
  IN  [trainer |-> [T EXCEPT !.weights_ = w, !.op = "quantize"],
       target_layer |-> [L EXCEPT !.biases_ = RoundBias(T.biases_),
                                  !.weights_ = Round(w)]]

\* DequantizeParameters truncating to whole steps of the weight's float.
DequantizeParameters_Coarse(T, L) ==
  [T EXCEPT !.biases_ = L.biases_ * WeightSteps,
            !.weights_ = (L.weights_ \div 4) * 4 * WeightSteps,
            !.op = "dequantize"]

\* DequantizeParameters: bias and weight are read back from the layer.
DequantizeParameters(T, L) ==
  [T EXCEPT !.biases_ = L.biases_ * WeightSteps,
            !.weights_ = L.weights_ * WeightSteps,
            !.op = "dequantize"]

\* No trainer exists.
TrainerIdle ==
  /\ trainer = NewTrainer(0, 0)
  /\ target_layer = [weights_ |-> 0, biases_ |-> 0]

(***************************************************************************)
(* shuffle_write: the second pass of "learn shuffle".  Input file n holds  *)
(* the records <<n, 0>>, <<n, 1>>, ...; afs[n] is the number of records    *)
(* read from it so far.                                                    *)
(***************************************************************************)
\* Bound: the largest number of records in an input file; there is one
\* file more than that.
MaxFileRecords == 2
ShuffleFiles == 0 .. MaxFileRecords

RECURSIVE SumCount(_, _)
SumCount(a_count, N) ==
  IF N = {} THEN 0
  ELSE LET n == CHOOSE x \in N : TRUE IN a_count[n] + SumCount(a_count, N \ {n})

\* prng.rand(n): a number of 0 .. n - 1.
prng_rand(n) == 0 .. n - 1

\* while (a_count[n] <= r) r -= a_count[n++]: the file r points into; past
\* marks an index beyond the last file.
RECURSIVE Locate(_, _, _)
Locate(a_count, n, r) ==
  IF n \notin DOMAIN a_count THEN [n |-> n, past |-> TRUE]
  ELSE IF a_count[n] <= r THEN Locate(a_count, n + 1, r - a_count[n])
  ELSE [n |-> n, past |-> FALSE]

\* shuffle_write up to the loop: the sum of a_count, the output opened.
NewShuffle(files) ==
  [pc |-> "loop", a_count |-> files, sum |-> SumCount(files, DOMAIN files),
   files |-> files, afs |-> [n \in DOMAIN files |-> 0], fs |-> {},
   write_sfen_count |-> 0, iterations |-> 0, past |-> FALSE]

\* One turn of while (sum != 0) that leaves a_count[n] as it is.
shuffle_write_turn_NoDecrement(S, r) ==
  LET l == Locate(S.a_count, 0, r)
      n == l.n
  IN  IF l.past THEN [S EXCEPT !.past = TRUE, !.pc = "past"]
      ELSE IF S.afs[n] < S.files[n]
      THEN [S EXCEPT !.sum = @ - 1, !.iterations = @ + 1,
                     !.afs[n] = @ + 1, !.fs = @ \cup {<<n, S.afs[n]>>},
                     !.write_sfen_count = @ + 1]
      ELSE [S EXCEPT !.sum = @ - 1, !.iterations = @ + 1]

\* One turn of while (sum != 0) with the random number r: the file is
\* located, its count and the sum go down by one, and the next record of
\* the file is read and written (a read that fails writes nothing).
shuffle_write_turn(S, r) ==
  LET l == Locate(S.a_count, 0, r)
      n == l.n
  IN  IF l.past THEN [S EXCEPT !.past = TRUE, !.pc = "past"]
      ELSE IF S.afs[n] < S.files[n]
      THEN [S EXCEPT !.a_count[n] = @ - 1, !.sum = @ - 1, !.iterations = @ + 1,
                     !.afs[n] = @ + 1, !.fs = @ \cup {<<n, S.afs[n]>>},
                     !.write_sfen_count = @ + 1]
      ELSE [S EXCEPT !.a_count[n] = @ - 1, !.sum = @ - 1, !.iterations = @ + 1]

\* shuffle_write is not running.
ShuffleIdle == shuf = [NewShuffle([n \in {0} |-> 0]) EXCEPT !.pc = "idle"]

ToolIdle == TrainerIdle /\ ShuffleIdle

\* MOVE_NULL, on the stack of pending moves for a pending do_null_move.
MOVE_NULL == Move(1, 1, NORMAL, 0)

SetPos(R) ==
  /\ board' = R.board
  /\ pieceCount' = R.pieceCount
  /\ sideToMove' = R.sideToMove
  /\ gamePly' = R.gamePly
  /\ evalList' = R.evalList
  /\ st' = R.st

\* The position of scenario i, explored to the given depth.
PosInit(i, depth) ==
    LET R == set(Scenarios[i].places, Scenarios[i].stm, Scenarios[i].rooks)
    IN  /\ board = R.board
        /\ pieceCount = R.pieceCount
        /\ sideToMove = R.sideToMove
        /\ gamePly = R.gamePly
        /\ evalList = R.evalList
        /\ st = R.st
        /\ castlingRightsMask = R.castlingRightsMask
        /\ castlingRookSquare = R.castlingRookSquare
        /\ zone = [squares |-> Scenarios[i].zone, depth |-> depth]
        /\ lastOp = [op |-> "set"]
        /\ snaps = << >>
        /\ moves = << >>

PosInitAt(i) == PosInit(i, MaxPly + Scenarios[i].extra)

Init == (\E i \in 1 .. Len(Scenarios) : PosInitAt(i)) /\ GenIdle /\ LearnIdle /\ ToolIdle

\* The legal moves explored from the current position.
Explored ==
  { m \in { m \in pseudo_legal(board, sideToMove, st[Len(st)].castlingRights,
                               castlingRookSquare, st[Len(st)].epSquare) :
              m.to \in zone.squares \/ m.type = CASTLING } :
      legal(board, sideToMove, m) }

\* do_move copying the whole parent StateInfo, accumulator included, and
\* not clearing the flags.
DoMove_CopyAccumulator ==
  /\ ~evalList.oob
  /\ Len(st) - 1 < zone.depth
  /\ \E m \in Explored :
       /\ LET P2 == do_move(Pos, castlingRightsMask, m)
          IN  SetPos([P2 EXCEPT !.st[Len(P2.st)].accumulator = st[Len(st)].accumulator])
       /\ snaps' = Append(snaps, Pos)
       /\ moves' = Append(moves, m)
       /\ lastOp' = [op |-> "do_move", m |-> m]
  /\ UNCHANGED <<castlingRightsMask, castlingRookSquare, zone>>
  /\ UNCHANGED <<genVars, toolVars>>
  /\ UNCHANGED learnVars

DoMove ==
  /\ ~evalList.oob
  /\ Len(st) - 1 < zone.depth
  /\ \E m \in Explored :
       /\ SetPos(do_move(Pos, castlingRightsMask, m))
       /\ snaps' = Append(snaps, Pos)
       /\ moves' = Append(moves, m)
       /\ lastOp' = [op |-> "do_move", m |-> m]
  /\ UNCHANGED <<castlingRightsMask, castlingRookSquare, zone>>
  /\ UNCHANGED <<genVars, toolVars>>
  /\ UNCHANGED learnVars

UndoMove ==
  /\ ~evalList.oob
  /\ moves # << >>
  /\ moves[Len(moves)] # MOVE_NULL
  /\ SetPos(undo_move(Pos, moves[Len(moves)]))
  /\ snaps' = SubSeq(snaps, 1, Len(snaps) - 1)
  /\ moves' = SubSeq(moves, 1, Len(moves) - 1)
  /\ lastOp' = [op |-> "undo_move", m |-> moves[Len(moves)], before |-> snaps[Len(snaps)]]
  /\ UNCHANGED <<castlingRightsMask, castlingRookSquare, zone>>
  /\ UNCHANGED <<genVars, toolVars>>
  /\ UNCHANGED learnVars

DoNullMove ==
  /\ ~evalList.oob
  /\ Len(st) - 1 < zone.depth
  /\ ~attacked(board, king_square(board, sideToMove), Opp(sideToMove))
  /\ SetPos(do_null_move(Pos))
  /\ snaps' = Append(snaps, Pos)
  /\ moves' = Append(moves, MOVE_NULL)
  /\ lastOp' = [op |-> "do_null_move"]
  /\ UNCHANGED <<castlingRightsMask, castlingRookSquare, zone>>
  /\ UNCHANGED <<genVars, toolVars>>
  /\ UNCHANGED learnVars

UndoNullMove ==
  /\ moves # << >>
  /\ moves[Len(moves)] = MOVE_NULL
  /\ SetPos(undo_null_move(Pos))
  /\ snaps' = SubSeq(snaps, 1, Len(snaps) - 1)
  /\ moves' = SubSeq(moves, 1, Len(moves) - 1)
  /\ lastOp' = [op |-> "undo_null_move", before |-> snaps[Len(snaps)]]
  /\ UNCHANGED <<castlingRightsMask, castlingRookSquare, zone>>
  /\ UNCHANGED <<genVars, toolVars>>
  /\ UNCHANGED learnVars

(***************************************************************************)
(* Features::HalfKP<Side::kFriend>.  Index lists are sequences.            *)
(***************************************************************************)
MakeIndex(sq_k, p) == fe_end * sq_k + p

\* ExtBonaPiece::from[perspective]
From(ebp, perspective) == IF perspective = BLACK THEN ebp.fb ELSE ebp.fw

\* GetPieces: the perspective's piece list and the square of its own king.
GetPieces(el, perspective) ==
  LET pieces == IF perspective = BLACK THEN el.fb ELSE el.fw
      target == PIECE_NUMBER_KING + perspective
  IN  [pieces |-> pieces, sq_target_k |-> (pieces[target] - f_king) % SQUARE_NB]

AppendActiveIndices(el, perspective) ==
  LET g      == GetPieces(el, perspective)
      all    == [i \in 1 .. PIECE_NUMBER_KING |-> g.pieces[i - 1]]
      active == SelectSeq(all, LAMBDA p : p # BONA_PIECE_ZERO)
  IN  [j \in 1 .. Len(active) |-> MakeIndex(g.sq_target_k, active[j])]

\* AppendChangedIndices without the test that skips the kings' piece numbers.
AppendChangedIndices_NoKingSkip(el, dp, perspective) ==
  LET g == GetPieces(el, perspective)
      Removed(i) ==
        IF i > dp.dirty_num THEN << >>
        ELSE IF From(dp.changed_piece[i].old_piece, perspective) # BONA_PIECE_ZERO
          THEN << MakeIndex(g.sq_target_k, From(dp.changed_piece[i].old_piece, perspective)) >>
          ELSE << >>
      Added(i) ==
        IF i > dp.dirty_num THEN << >>
        ELSE IF From(dp.changed_piece[i].new_piece, perspective) # BONA_PIECE_ZERO
          THEN << MakeIndex(g.sq_target_k, From(dp.changed_piece[i].new_piece, perspective)) >>
          ELSE << >>
  IN  [removed |-> Removed(1) \o Removed(2), added |-> Added(1) \o Added(2)]

\* el is the EvalList after the move, dp the DirtyPiece record of the move.
AppendChangedIndices(el, dp, perspective) ==
  LET g == GetPieces(el, perspective)
      Removed(i) ==
        IF i > dp.dirty_num \/ dp.pieceNo[i] >= PIECE_NUMBER_KING THEN << >>
        ELSE IF From(dp.changed_piece[i].old_piece, perspective) # BONA_PIECE_ZERO
          THEN << MakeIndex(g.sq_target_k, From(dp.changed_piece[i].old_piece, perspective)) >>
          ELSE << >>
      Added(i) ==
        IF i > dp.dirty_num \/ dp.pieceNo[i] >= PIECE_NUMBER_KING THEN << >>
        ELSE IF From(dp.changed_piece[i].new_piece, perspective) # BONA_PIECE_ZERO
          THEN << MakeIndex(g.sq_target_k, From(dp.changed_piece[i].new_piece, perspective)) >>
          ELSE << >>
  IN  [removed |-> Removed(1) \o Removed(2), added |-> Added(1) \o Added(2)]

(***************************************************************************)
(* Features::P: the indices are the BonaPieces themselves.                 *)
(***************************************************************************)
P_AppendActiveIndices(el, perspective) ==
  LET pieces == IF perspective = BLACK THEN el.fb ELSE el.fw
      all    == [i \in 1 .. PIECE_NUMBER_KING |-> pieces[i - 1]]
  IN  SelectSeq(all, LAMBDA p : p # BONA_PIECE_ZERO)

\* P::AppendChangedIndices without the test that skips the kings.
P_AppendChangedIndices_NoKingSkip(dp, perspective) ==
  LET Removed(i) ==
        IF i > dp.dirty_num THEN << >>
        ELSE IF From(dp.changed_piece[i].old_piece, perspective) # BONA_PIECE_ZERO
          THEN << From(dp.changed_piece[i].old_piece, perspective) >>
          ELSE << >>
      Added(i) ==
        IF i > dp.dirty_num THEN << >>
        ELSE IF From(dp.changed_piece[i].new_piece, perspective) # BONA_PIECE_ZERO
          THEN << From(dp.changed_piece[i].new_piece, perspective) >>
          ELSE << >>
  IN  [removed |-> Removed(1) \o Removed(2), added |-> Added(1) \o Added(2)]

P_AppendChangedIndices(dp, perspective) ==
  LET Removed(i) ==
        IF i > dp.dirty_num \/ dp.pieceNo[i] >= PIECE_NUMBER_KING THEN << >>
        ELSE IF From(dp.changed_piece[i].old_piece, perspective) # BONA_PIECE_ZERO
          THEN << From(dp.changed_piece[i].old_piece, perspective) >>
          ELSE << >>
      Added(i) ==
        IF i > dp.dirty_num \/ dp.pieceNo[i] >= PIECE_NUMBER_KING THEN << >>
        ELSE IF From(dp.changed_piece[i].new_piece, perspective) # BONA_PIECE_ZERO
          THEN << From(dp.changed_piece[i].new_piece, perspective) >>
          ELSE << >>
  IN  [removed |-> Removed(1) \o Removed(2), added |-> Added(1) \o Added(2)]

(***************************************************************************)
(* FeatureSet::AppendChangedIndices for the trigger kFriendKingMoved: a    *)
(* perspective is reset when the first dirty piece is its own king, and    *)
(* then the added list is the whole active list.                           *)
(***************************************************************************)
FeatureSetChangedIndices(el, dp, perspective) ==
  IF dp.dirty_num = 0
    THEN [reset |-> FALSE, removed |-> << >>, added |-> << >>]
  ELSE IF dp.pieceNo[1] = PIECE_NUMBER_KING + perspective
    THEN [reset |-> TRUE, removed |-> << >>, added |-> AppendActiveIndices(el, perspective)]
  ELSE [reset |-> FALSE,
        removed |-> AppendChangedIndices(el, dp, perspective).removed,
        added |-> AppendChangedIndices(el, dp, perspective).added]

ToSet(seq) == { seq[i] : i \in 1 .. Len(seq) }
NoDuplicate(seq) == \A i, j \in 1 .. Len(seq) : seq[i] = seq[j] => i = j

\* TestFeatures' update_index_sets on one perspective's index set.
update_index_sets(index_set, ch) ==
  (IF ch.reset THEN {} ELSE index_set \ ToSet(ch.removed)) \cup ToSet(ch.added)

(***************************************************************************)
(* Accumulator and feature transformer.  A column sum is a function from   *)
(* feature index to the number of times its weight column is summed.       *)
(***************************************************************************)
RECURSIVE AccApply(_, _, _)
\* acc with d times the weight column of every index of seq added.
AccApply(acc, seq, d) ==
  IF seq = << >> THEN acc
  ELSE LET idx == Head(seq)
           c   == (IF idx \in DOMAIN acc THEN acc[idx] ELSE 0) + d
           D   == IF c = 0 THEN DOMAIN acc \ {idx} ELSE DOMAIN acc \cup {idx}
       IN  AccApply([i \in D |-> IF i = idx THEN c ELSE acc[i]], Tail(seq), d)

\* RefreshAccumulator: the sum over the full active feature list.
RefreshAccumulator(el, perspective) ==
  AccApply(<< >>, AppendActiveIndices(el, perspective), 1)

\* The EvalList of the position of the k-th StateInfo of the chain.
EvalListAt(k) == IF k = Len(st) THEN evalList ELSE snaps[k].evalList

\* The k-th StateInfo was made by do_null_move.
IsNullState(k) == k > 1 /\ st[k].pliesFromNull = 0

(***************************************************************************)
(* The nearest ancestor whose accumulation is computed and from which the  *)
(* current state is reached without a move of the perspective's own king   *)
(* and without a null move; 0 if there is none.                            *)
(***************************************************************************)
UsableAncestor(perspective) ==
  LET n == Len(st)
      J == { j \in 1 .. n - 1 :
               /\ st[j].accumulator.computed_accumulation
               /\ \A k \in j + 1 .. n :
                    /\ ~IsNullState(k)
                    /\ ~FeatureSetChangedIndices(EvalListAt(k), st[k].dirtyPiece,
                                                 perspective).reset }
  IN  IF J = {} THEN 0 ELSE CHOOSE j \in J : \A i \in J : i <= j

RECURSIVE Replay(_, _, _, _)
\* UpdateAccumulator: acc with the deltas of the plies from .. to applied.
Replay(acc, from, to, perspective) ==
  IF from > to THEN acc
  ELSE LET ch == AppendChangedIndices(EvalListAt(from), st[from].dirtyPiece, perspective)
       IN  Replay(AccApply(AccApply(acc, ch.removed, -1), ch.added, 1),
                  from + 1, to, perspective)

\* The accumulation of the current state for a perspective.
Accumulate(perspective) ==
  LET j == UsableAncestor(perspective)
  IN  IF j = 0 THEN RefreshAccumulator(evalList, perspective)
      ELSE Replay(st[j].accumulator.accumulation[perspective + 1], j + 1, Len(st), perspective)

\* Eval::evaluate at the current position: the accumulator is computed if it
\* is not, and the score with it.
Evaluate ==
  /\ ~evalList.oob
  /\ ~st[Len(st)].accumulator.computed_score
  /\ st' = [st EXCEPT ![Len(st)].accumulator =
              [computed_accumulation |-> TRUE, computed_score |-> TRUE,
               accumulation |->
                 IF @.computed_accumulation THEN @.accumulation
                 ELSE << Accumulate(WHITE), Accumulate(BLACK) >>]]
  /\ lastOp' = [op |-> "evaluate",
                replayed |-> IF st[Len(st)].accumulator.computed_accumulation THEN << >>
                             ELSE [p \in 1 .. 2 |->
                                     IF UsableAncestor(p - 1) = 0 THEN 0
                                     ELSE Len(st) - UsableAncestor(p - 1)]]
  /\ UNCHANGED <<board, pieceCount, sideToMove, gamePly, castlingRightsMask,
                 castlingRookSquare, evalList, snaps, moves, zone>>
  /\ UNCHANGED <<genVars, toolVars>>
  /\ UNCHANGED learnVars

Next == DoMove \/ UndoMove \/ DoNullMove \/ UndoNullMove \/ Evaluate

Spec == Init /\ [][Next]_vars

(***************************************************************************)
(* The knights of position 4 going back and forth for up to MaxPly + 5     *)
(* plies, null moves included, without evaluations: long enough for a      *)
(* position to occur three times.                                          *)
(***************************************************************************)
InitRep == PosInit(4, MaxPly + 5) /\ GenIdle /\ LearnIdle /\ ToolIdle

NextRep == DoMove \/ UndoMove \/ DoNullMove \/ UndoNullMove

SpecRep == InitRep /\ [][NextRep]_vars

(***************************************************************************)
(* C1: do_move(m) followed by undo_move(m) restores the position exactly:  *)
(* after an undo_move the board, the piece counts, the side to move, the   *)
(* game ply, the EvalList (piece lists and piece numbers of the squares)   *)
(* and the StateInfo chain with its keys, castling rights and en-passant   *)
(* square all equal their values before the do_move.                       *)
(***************************************************************************)
C1_UndoRestores ==
  lastOp.op = "undo_move" => Pos = lastOp.before

C3_IncrementalEqualsRefresh ==
  \A k \in 1 .. Len(st) :
    st[k].accumulator.computed_accumulation =>
      \A p \in Colors :
        st[k].accumulator.accumulation[p + 1] = RefreshAccumulator(EvalListAt(k), p)

(***************************************************************************)
(* gensfen: the steps of MultiThinkGenSfen::thread_worker, of the          *)
(* SfenWriter's file worker and of gen_sfen.                               *)
(***************************************************************************)
\* The call flush_psv(lastTurnIsWin) at the end of a game: the walk starts at
\* the last buffered record.
flush_psv_enter(w, lastTurnIsWin, why) ==
  [w EXCEPT !.end = why, !.result = lastTurnIsWin, !.isWin = lastTurnIsWin,
            !.it = Len(w.a_psv),
            !.pc = IF w.a_psv = << >> THEN "game" ELSE "flush"]

\* thread_worker_ply without the end of the game on a search value beyond
\* eval_limit.
thread_worker_ply_NoLimit(w, h, minply, MAX_PLY2, in) ==
  LET ply == w.ply
      is_draw_ply == in.draw >= 1 /\ ply >= MinDrawPly
      is_draw_0 == in.draw = 2 /\ ply >= MinDrawPly
      hash_index == in.key % GENSFEN_HASH_SIZE
      skip_minply == ply < minply - 1
      skip_dup == ~skip_minply /\ in.key = h[hash_index]
      saved == IF skip_minply \/ skip_dup THEN << >>
               ELSE Append(w.a_psv, Recorded(PackedSfenValue(in.score, ply), in.value1))
      h2 == IF skip_minply \/ skip_dup THEN h ELSE [h EXCEPT ![hash_index] = in.key]
  IN  IF ply >= MAX_PLY2
        THEN [w |-> flush_psv_enter(w, 0, "maxply"), hash |-> h]
      ELSE IF is_draw_ply
        THEN [w |-> [w EXCEPT !.end = "draw", !.pc = "game"], hash |-> h]
      ELSE IF in.no_moves
        THEN [w |-> flush_psv_enter(w, -1, "mate"), hash |-> h]
      ELSE IF is_draw_0
        THEN [w |-> flush_psv_enter(w, 1, "draw0"), hash |-> h]
      ELSE [w |-> [w EXCEPT !.a_psv = IF in.random THEN << >> ELSE saved,
                            !.ply = ply + 1],
            hash |-> h2]

\* thread_worker_ply with every recorded position written at once.
thread_worker_ply_WriteEarly(w, h, minply, MAX_PLY2, in) ==
  LET ply == w.ply
      is_draw_ply == in.draw >= 1 /\ ply >= MinDrawPly
      is_draw_0 == in.draw = 2 /\ ply >= MinDrawPly
      hash_index == in.key % GENSFEN_HASH_SIZE
      skip_minply == ply < minply - 1
      skip_dup == ~skip_minply /\ in.key = h[hash_index]
      saved == IF skip_minply \/ skip_dup \/ in.random THEN << >>
               ELSE Append(w.a_psv, Recorded(PackedSfenValue(in.score, ply), in.value1))
      h2 == IF skip_minply \/ skip_dup THEN h ELSE [h EXCEPT ![hash_index] = in.key]
  IN  IF ply >= MAX_PLY2
        THEN [w |-> flush_psv_enter(w, 0, "maxply"), hash |-> h]
      ELSE IF is_draw_ply
        THEN [w |-> [w EXCEPT !.end = "draw", !.pc = "game"], hash |-> h]
      ELSE IF in.no_moves
        THEN [w |-> flush_psv_enter(w, -1, "mate"), hash |-> h]
      ELSE IF Abs(in.value1) >= eval_limit
        THEN [w |-> flush_psv_enter(w, IF in.value1 >= eval_limit THEN 1 ELSE -1, "limit"),
              hash |-> h]
      ELSE IF is_draw_0
        THEN [w |-> flush_psv_enter(w, 1, "draw0"), hash |-> h]
      ELSE [w |-> [w EXCEPT !.a_psv = saved, !.ply = ply + 1, !.it = Len(saved),
                            !.pc = IF saved = << >> THEN "ply" ELSE "flush"],
            hash |-> h2]

\* thread_worker_ply without the write_minply cutoff.
thread_worker_ply_NoCutoff(w, h, minply, MAX_PLY2, in) ==
  LET ply == w.ply
      is_draw_ply == in.draw >= 1 /\ ply >= MinDrawPly
      is_draw_0 == in.draw = 2 /\ ply >= MinDrawPly
      hash_index == in.key % GENSFEN_HASH_SIZE
      skip_dup == in.key = h[hash_index]
      saved == IF skip_dup THEN << >>
               ELSE Append(w.a_psv, Recorded(PackedSfenValue(in.score, ply), in.value1))
      h2 == IF skip_dup THEN h ELSE [h EXCEPT ![hash_index] = in.key]
  IN  IF ply >= MAX_PLY2
        THEN [w |-> flush_psv_enter(w, 0, "maxply"), hash |-> h]
      ELSE IF is_draw_ply
        THEN [w |-> [w EXCEPT !.end = "draw", !.pc = "game"], hash |-> h]
      ELSE IF in.no_moves
        THEN [w |-> flush_psv_enter(w, -1, "mate"), hash |-> h]
      ELSE IF Abs(in.value1) >= eval_limit
        THEN [w |-> flush_psv_enter(w, IF in.value1 >= eval_limit THEN 1 ELSE -1, "limit"),
              hash |-> h]
      ELSE IF is_draw_0
        THEN [w |-> flush_psv_enter(w, 1, "draw0"), hash |-> h]
      ELSE [w |-> [w EXCEPT !.a_psv = IF in.random THEN << >> ELSE saved,
                            !.ply = ply + 1],
            hash |-> h2]

\* thread_worker_ply without the test of the hash table: the slot is
\* overwritten and the position recorded whatever the slot holds.
thread_worker_ply_RecordDup(w, h, minply, MAX_PLY2, in) ==
  LET ply == w.ply
      is_draw_ply == in.draw >= 1 /\ ply >= MinDrawPly
      is_draw_0 == in.draw = 2 /\ ply >= MinDrawPly
      hash_index == in.key % GENSFEN_HASH_SIZE
      skip_minply == ply < minply - 1
      skip_dup == FALSE
      saved == IF skip_minply \/ skip_dup THEN << >>
               ELSE Append(w.a_psv, Recorded(PackedSfenValue(in.score, ply), in.value1))
      h2 == IF skip_minply \/ skip_dup THEN h ELSE [h EXCEPT ![hash_index] = in.key]
  IN  IF ply >= MAX_PLY2
        THEN [w |-> flush_psv_enter(w, 0, "maxply"), hash |-> h]
      ELSE IF is_draw_ply
        THEN [w |-> [w EXCEPT !.end = "draw", !.pc = "game"], hash |-> h]
      ELSE IF in.no_moves
        THEN [w |-> flush_psv_enter(w, -1, "mate"), hash |-> h]
      ELSE IF Abs(in.value1) >= eval_limit
        THEN [w |-> flush_psv_enter(w, IF in.value1 >= eval_limit THEN 1 ELSE -1, "limit"),
              hash |-> h]
      ELSE IF is_draw_0
        THEN [w |-> flush_psv_enter(w, 1, "draw0"), hash |-> h]
      ELSE [w |-> [w EXCEPT !.a_psv = IF in.random THEN << >> ELSE saved,
                            !.ply = ply + 1],
            hash |-> h2]

\* thread_worker_ply that keeps the buffered records when a random move is
\* played.
thread_worker_ply_KeepOnRandom(w, h, minply, MAX_PLY2, in) ==
  LET ply == w.ply
      is_draw_ply == in.draw >= 1 /\ ply >= MinDrawPly
      is_draw_0 == in.draw = 2 /\ ply >= MinDrawPly
      hash_index == in.key % GENSFEN_HASH_SIZE
      skip_minply == ply < minply - 1
      skip_dup == ~skip_minply /\ in.key = h[hash_index]
      saved == IF skip_minply \/ skip_dup THEN << >>
               ELSE Append(w.a_psv, Recorded(PackedSfenValue(in.score, ply), in.value1))
      h2 == IF skip_minply \/ skip_dup THEN h ELSE [h EXCEPT ![hash_index] = in.key]
  IN  IF ply >= MAX_PLY2
        THEN [w |-> flush_psv_enter(w, 0, "maxply"), hash |-> h]
      ELSE IF is_draw_ply
        THEN [w |-> [w EXCEPT !.end = "draw", !.pc = "game"], hash |-> h]
      ELSE IF in.no_moves
        THEN [w |-> flush_psv_enter(w, -1, "mate"), hash |-> h]
      ELSE IF Abs(in.value1) >= eval_limit
        THEN [w |-> flush_psv_enter(w, IF in.value1 >= eval_limit THEN 1 ELSE -1, "limit"),
              hash |-> h]
      ELSE IF is_draw_0
        THEN [w |-> flush_psv_enter(w, 1, "draw0"), hash |-> h]
      ELSE [w |-> [w EXCEPT !.a_psv = saved,
                            !.ply = ply + 1],
            hash |-> h2]

\* One ply of the game loop up to the move that is played: the tests that end
\* the game, then the record of the position, then the move.
thread_worker_ply(w, h, minply, MAX_PLY2, in) ==
  LET ply == w.ply
      is_draw_ply == in.draw >= 1 /\ ply >= MinDrawPly
      is_draw_0 == in.draw = 2 /\ ply >= MinDrawPly
      hash_index == in.key % GENSFEN_HASH_SIZE
      skip_minply == ply < minply - 1
      skip_dup == ~skip_minply /\ in.key = h[hash_index]
      saved == IF skip_minply \/ skip_dup THEN << >>
               ELSE Append(w.a_psv, Recorded(PackedSfenValue(in.score, ply), in.value1))
      h2 == IF skip_minply \/ skip_dup THEN h ELSE [h EXCEPT ![hash_index] = in.key]
  IN  IF ply >= MAX_PLY2
        THEN [w |-> flush_psv_enter(w, 0, "maxply"), hash |-> h]
      ELSE IF is_draw_ply
        THEN [w |-> [w EXCEPT !.end = "draw", !.pc = "game"], hash |-> h]
      ELSE IF in.no_moves
        THEN [w |-> flush_psv_enter(w, -1, "mate"), hash |-> h]
      ELSE IF Abs(in.value1) >= eval_limit
        THEN [w |-> flush_psv_enter(w, IF in.value1 >= eval_limit THEN 1 ELSE -1, "limit"),
              hash |-> h]
      ELSE IF is_draw_0
        THEN [w |-> flush_psv_enter(w, 1, "draw0"), hash |-> h]
      ELSE [w |-> [w EXCEPT !.a_psv = IF in.random THEN << >> ELSE saved,
                            !.ply = ply + 1],
            hash |-> h2]

\* flush_psv without the flip of isWin.
flush_psv_NoFlip(w, lc, bufs, pool, thread_id) ==
  LET isWin == w.isWin
      a_psv == [w.a_psv EXCEPT ![w.it].game_result = isWin]
      c == get_next_loop_count(lc)
      sw == sw_write(bufs, pool, thread_id, a_psv[w.it])
  IN  IF c.ret = UINT64_MAX
      THEN [w |-> [w EXCEPT !.isWin = isWin, !.a_psv = a_psv, !.quit = TRUE, !.pc = "game"],
            loop_count |-> c.loop_count,
            sfen_buffers |-> bufs, sfen_buffers_pool |-> pool]
      ELSE [w |-> [w EXCEPT !.isWin = isWin, !.a_psv = a_psv, !.it = @ - 1,
                            !.wrote = @ + 1,
                            !.pc = IF w.it = 1 THEN "game" ELSE "flush"],
            loop_count |-> c.loop_count,
            sfen_buffers |-> sw.sfen_buffers, sfen_buffers_pool |-> sw.sfen_buffers_pool]

\* flush_psv writing the record before it looks at the tick it was given.
flush_psv_WriteFirst(w, lc, bufs, pool, thread_id) ==
  LET isWin == 0 - w.isWin
      a_psv == [w.a_psv EXCEPT ![w.it].game_result = isWin]
      c == get_next_loop_count(lc)
      sw == sw_write(bufs, pool, thread_id, a_psv[w.it])
  IN  IF c.ret = UINT64_MAX
      THEN [w |-> [w EXCEPT !.isWin = isWin, !.a_psv = a_psv, !.quit = TRUE, !.pc = "game",
                            !.wrote = @ + 1],
            loop_count |-> c.loop_count,
            sfen_buffers |-> sw.sfen_buffers, sfen_buffers_pool |-> sw.sfen_buffers_pool]
      ELSE [w |-> [w EXCEPT !.isWin = isWin, !.a_psv = a_psv, !.it = @ - 1,
                            !.wrote = @ + 1,
                            !.pc = IF w.it = 1 THEN "game" ELSE "flush"],
            loop_count |-> c.loop_count,
            sfen_buffers |-> sw.sfen_buffers, sfen_buffers_pool |-> sw.sfen_buffers_pool]

\* One turn of the loop of flush_psv, for the record a_psv[it]: the sign is
\* flipped and stored, a tick of the loop counter is taken, and the record is
\* written unless the counter is exhausted; then the thread quits and
\* flush_psv returns.
flush_psv(w, lc, bufs, pool, thread_id) ==
  LET isWin == 0 - w.isWin
      a_psv == [w.a_psv EXCEPT ![w.it].game_result = isWin]
      c == get_next_loop_count(lc)
      sw == sw_write(bufs, pool, thread_id, a_psv[w.it])
  IN  IF c.ret = UINT64_MAX
      THEN [w |-> [w EXCEPT !.isWin = isWin, !.a_psv = a_psv, !.quit = TRUE, !.pc = "game"],
            loop_count |-> c.loop_count,
            sfen_buffers |-> bufs, sfen_buffers_pool |-> pool]
      ELSE [w |-> [w EXCEPT !.isWin = isWin, !.a_psv = a_psv, !.it = @ - 1,
                            !.wrote = @ + 1,
                            !.pc = IF w.it = 1 THEN "game" ELSE "flush"],
            loop_count |-> c.loop_count,
            sfen_buffers |-> sw.sfen_buffers, sfen_buffers_pool |-> sw.sfen_buffers_pool]

\* while (!quit): a new game starts from StartFEN with an empty a_psv.
GenNewGame(t) ==
  /\ worker[t].pc = "game"
  /\ ~worker[t].quit
  /\ worker' = [worker EXCEPT ![t] = NewWorker("ply")]
  /\ UNCHANGED <<loop_count, write_minply, write_maxply, leaf_scores, hash, sfen_buffers, sfen_buffers_pool,
                 sw_mutex, fs, finished>>
  /\ UNCHANGED <<posVars, toolVars>>
  /\ UNCHANGED learnVars

GenPly(t) ==
  /\ worker[t].pc = "ply"
  /\ \E in \in PlyInputs :
       LET r == thread_worker_ply(worker[t], hash, write_minply, write_maxply, in)
       IN  /\ worker' = [worker EXCEPT ![t] = r.w]
           /\ hash' = r.hash
  /\ UNCHANGED <<loop_count, write_minply, write_maxply, leaf_scores, sfen_buffers, sfen_buffers_pool,
                 sw_mutex, fs, finished>>
  /\ UNCHANGED <<posVars, toolVars>>
  /\ UNCHANGED learnVars

GenFlush(t) ==
  /\ worker[t].pc = "flush"
  /\ LET r == flush_psv(worker[t], loop_count, sfen_buffers, sfen_buffers_pool, t)
     IN  /\ worker' = [worker EXCEPT ![t] =
                         IF Len(r.sfen_buffers[t]) >= SFEN_WRITE_SIZE
                         THEN [r.w EXCEPT !.pc = "write"] ELSE r.w]
         /\ loop_count' = r.loop_count
         /\ sfen_buffers' = r.sfen_buffers
         /\ sfen_buffers_pool' = r.sfen_buffers_pool
  /\ UNCHANGED <<write_minply, write_maxply, leaf_scores, hash, sw_mutex, fs, finished>>
  /\ UNCHANGED <<posVars, toolVars>>
  /\ UNCHANGED learnVars

\* SfenWriter::write with a full buffer: std::unique_lock<std::mutex>
\* lk(mutex).
GenWriteLock(t) ==
  /\ worker[t].pc = "write"
  /\ sw_mutex = {}
  /\ sw_mutex' = {t}
  /\ worker' = [worker EXCEPT ![t].pc = "push"]
  /\ UNCHANGED <<loop_count, write_minply, write_maxply, leaf_scores, hash, sfen_buffers,
                 sfen_buffers_pool, fs, finished>>
  /\ UNCHANGED <<posVars, toolVars>>
  /\ UNCHANGED learnVars

\* SfenWriter::write under the mutex: the buffer goes to the pool, and
\* write returns to flush_psv, which goes on with the next record or
\* returns to the game loop.
GenWritePush(t) ==
  /\ worker[t].pc = "push"
  /\ sfen_buffers_pool' = Append(sfen_buffers_pool, sfen_buffers[t])
  /\ sfen_buffers' = [sfen_buffers EXCEPT ![t] = << >>]
  /\ sw_mutex' = sw_mutex \ {t}
  /\ worker' = [worker EXCEPT ![t].pc =
                  IF worker[t].quit \/ worker[t].it = 0 THEN "game" ELSE "flush"]
  /\ UNCHANGED <<loop_count, write_minply, write_maxply, leaf_scores, hash, fs, finished>>
  /\ UNCHANGED <<posVars, toolVars>>
  /\ UNCHANGED learnVars

\* After the game loop: sw.finalize(thread_id) locks the mutex.
GenFinalize(t) ==
  /\ worker[t].pc = "game"
  /\ worker[t].quit
  /\ sw_mutex = {}
  /\ sw_mutex' = {t}
  /\ worker' = [worker EXCEPT ![t].pc = "final"]
  /\ UNCHANGED <<loop_count, write_minply, write_maxply, leaf_scores, hash, sfen_buffers,
                 sfen_buffers_pool, fs, finished>>
  /\ UNCHANGED <<posVars, toolVars>>
  /\ UNCHANGED learnVars

\* sw.finalize(thread_id) under the mutex.
GenFinalizePool(t) ==
  /\ worker[t].pc = "final"
  /\ LET r == sw_finalize(sfen_buffers, sfen_buffers_pool, t)
     IN  /\ sfen_buffers' = r.sfen_buffers
         /\ sfen_buffers_pool' = r.sfen_buffers_pool
  /\ sw_mutex' = sw_mutex \ {t}
  /\ worker' = [worker EXCEPT ![t].pc = "done"]
  /\ UNCHANGED <<loop_count, write_minply, write_maxply, leaf_scores, hash, fs, finished>>
  /\ UNCHANGED <<posVars, toolVars>>
  /\ UNCHANGED learnVars

RECURSIVE Flatten(_)
Flatten(buffers) ==
  IF buffers = << >> THEN << >> ELSE buffers[1] \o Flatten(Tail(buffers))

\* SfenWriter::file_write_worker: it locks the mutex (a turn of its loop
\* that finds the pool empty changes nothing).
FileWriteLock ==
  /\ sfen_buffers_pool # << >>
  /\ sw_mutex = {}
  /\ sw_mutex' = {file_worker_thread}
  /\ UNCHANGED <<worker, loop_count, write_minply, write_maxply, leaf_scores, hash, sfen_buffers,
                 sfen_buffers_pool, fs, finished>>
  /\ UNCHANGED <<posVars, toolVars>>
  /\ UNCHANGED learnVars

\* SfenWriter::file_write_worker: the pool is taken under the mutex and its
\* buffers are written to the file in order.
FileWriteWorker ==
  /\ file_worker_thread \in sw_mutex
  /\ fs' = fs \o Flatten(sfen_buffers_pool)
  /\ sfen_buffers_pool' = << >>
  /\ sw_mutex' = sw_mutex \ {file_worker_thread}
  /\ UNCHANGED <<worker, loop_count, write_minply, write_maxply, leaf_scores, hash, sfen_buffers, finished>>
  /\ UNCHANGED <<posVars, toolVars>>
  /\ UNCHANGED learnVars

\* gen_sfen after go_think has joined the workers: ~SfenWriter sets finished.
GenJoin ==
  /\ \A t \in GenThreads : worker[t].pc = "done"
  /\ ~finished
  /\ finished' = TRUE
  /\ UNCHANGED <<worker, loop_count, write_minply, write_maxply, leaf_scores, hash, sfen_buffers,
                 sfen_buffers_pool, sw_mutex, fs>>
  /\ UNCHANGED <<posVars, toolVars>>
  /\ UNCHANGED learnVars

\* gen_sfen: the options are read, the writer is made and go_think starts
\* thread_num workers on the start position.
gen_sfen(thread_num, minplys, maxply, scores) ==
  /\ PosInitAt(4)
  /\ worker = [t \in 0 .. thread_num - 1 |-> NewWorker("game")]
  /\ loop_count = 0
  /\ write_minply \in minplys
  /\ write_maxply = maxply
  /\ leaf_scores = scores
  /\ hash = [i \in 0 .. GENSFEN_HASH_SIZE - 1 |-> 0]
  /\ sfen_buffers = [t \in 0 .. thread_num - 1 |-> << >>]
  /\ sfen_buffers_pool = << >>
  /\ sw_mutex = {}
  /\ fs = << >>
  /\ finished = FALSE
  /\ LearnIdle
  /\ ToolIdle

\* Two workers on games cut at ply 2 (the workers share the loop counter,
\* the hash table and the writer).
InitGen == gen_sfen(2, 1 .. 2, 2, LeafScores)

\* One worker on games cut at ply 6 (long enough for a repetition), with
\* write_minply 2.
InitGame == gen_sfen(1, {2}, 6, LeafScores)

\* One worker on games cut at ply 2, with an evaluation function whose leaf
\* values can lie beyond eval_limit.
InitScore == gen_sfen(1, 1 .. 2, 2, LeafScores \cup {eval_limit + 100})

NextGen ==
  \/ \E t \in GenThreads : GenNewGame(t)
  \/ \E t \in GenThreads : GenPly(t)
  \/ \E t \in GenThreads : GenFlush(t)
  \/ \E t \in GenThreads : GenWriteLock(t)
  \/ \E t \in GenThreads : GenWritePush(t)
  \/ \E t \in GenThreads : GenFinalize(t)
  \/ \E t \in GenThreads : GenFinalizePool(t)
  \/ FileWriteLock
  \/ FileWriteWorker
  \/ GenJoin

SpecGen == InitGen /\ [][NextGen]_vars

SpecGame == InitGame /\ [][NextGen]_vars

SpecScore == InitScore /\ [][NextGen]_vars

(***************************************************************************)
(* Claims about the generator.                                             *)
(***************************************************************************)
\* r for an even number of plies, -r for an odd number.
Alternate(r, plies) == IF plies % 2 = 0 THEN r ELSE 0 - r

\* The records handed to the writer: in a thread's buffer, in the pool or in
\* the file.
Handed ==
  UNION { ToSet(sfen_buffers[t]) : t \in GenThreads }
  \cup ToSet(Flatten(sfen_buffers_pool)) \cup ToSet(fs)

RECURSIVE SumLen(_, _)
SumLen(bufs, T) ==
  IF T = {} THEN 0
  ELSE LET t == CHOOSE x \in T : TRUE IN Len(bufs[t]) + SumLen(bufs, T \ {t})

HandedCount ==
  SumLen(sfen_buffers, GenThreads) + Len(Flatten(sfen_buffers_pool)) + Len(fs)

\* The game of w ended with a win or a loss for the side to move at the
\* terminal position (no legal move, or a search value beyond eval_limit).
Decided(w) == w.end \in {"mate", "limit"}

(***************************************************************************)
(* C4: when a game ends decided, flush_psv walks a_psv from the last       *)
(* record to the first and gives each record it reaches the terminal       *)
(* result with the sign flipped once per ply between the record and the    *)
(* terminal position: -result one ply earlier, +result two plies earlier,  *)
(* and so on; a walk that the exhausted loop counter does not stop reaches *)
(* the first buffered record.                                              *)
(***************************************************************************)
C4_BackfillAlternates ==
  \A t \in GenThreads :
    LET w == worker[t]
    IN  Decided(w) /\ w.pc \in {"flush", "game", "done"} =>
          /\ \A i \in 1 .. Len(w.a_psv) :
               (i > w.it \/ (w.quit /\ i = w.it)) =>
                 /\ w.a_psv[i].gamePly = w.ply - (Len(w.a_psv) - i + 1)
                 /\ w.a_psv[i].game_result =
                      Alternate(w.result, w.ply - w.a_psv[i].gamePly)
          /\ (w.pc = "game" /\ ~w.quit => w.it = 0)

\* A game won by the side to move at the terminal position whose two
\* buffered records have been written: -1 one ply earlier, +1 two plies
\* earlier.
C4_Witness ==
  \E t \in GenThreads :
    LET w == worker[t]
    IN  /\ w.pc = "game" /\ w.end = "limit" /\ w.result = 1 /\ ~w.quit
        /\ Len(w.a_psv) = 2 /\ w.wrote = 2
        /\ w.a_psv[2].game_result = -1 /\ w.a_psv[2].gamePly = w.ply - 1
        /\ w.a_psv[1].game_result = 1 /\ w.a_psv[1].gamePly = w.ply - 2

(***************************************************************************)
(* C5: whenever a game ends in a draw (ply limit, repetition or fifty-move *)
(* rule) and the loop counter is not exhausted, every buffered record of   *)
(* the game is written, with game_result = 0.                              *)
(***************************************************************************)
C5_DrawWritesZero ==
  \A t \in GenThreads :
    LET w == worker[t]
    IN  w.pc = "game" /\ ~w.quit /\ w.end \in {"maxply", "draw", "draw0"} =>
          /\ w.wrote = Len(w.a_psv)
          /\ \A i \in 1 .. Len(w.a_psv) : w.a_psv[i].game_result = 0

(***************************************************************************)
(* C9: the records handed to the writer by all the generator threads are   *)
(* never more than loop_max: each one took a tick of the global loop       *)
(* counter, and a thread that was given the sentinel writes nothing more.  *)
(***************************************************************************)
C9_WrittenWithinLoopMax ==
  /\ HandedCount = loop_count
  /\ loop_count <= loop_max
  /\ \A t \in GenThreads : worker[t].quit => loop_count = loop_max

\* The counter is exhausted, both threads have written, and a thread has
\* been given the sentinel.
C9_Witness ==
  /\ HandedCount = loop_max
  /\ \E t \in GenThreads : worker[t].quit /\ worker[t].it > 0
  /\ \A t \in GenThreads : sfen_buffers[t] # << >>

Saved(N, dir) == IF dir = EvalDir THEN 0 ELSE N.saved[dir + 1]

\* save with trials reset by a rejected checkpoint as by an accepted one.
save_ResetOnReject(L, N, is_final) ==
  IF is_final THEN [learn |-> L, nn |-> N, converged |-> TRUE]
  ELSE
    LET dir_name == L.dir_number
        N1 == [N EXCEPT !.saved = Append(@, N.parameters)]
        L1 == [L EXCEPT !.dir_number = @ + 1]
    IN  IF L.latest_loss_count > 0
        THEN
          LET latest_loss == <<L.latest_loss_sum, L.latest_loss_count>>
              L2 == [L1 EXCEPT !.latest_loss_sum = 0, !.latest_loss_count = 0]
              accepted == LossLess(latest_loss, L.best_loss)
              trials == L.newbob_num_trials
              L3 == IF accepted
                    THEN [L2 EXCEPT !.best_loss = latest_loss,
                                    !.best_nn_directory = dir_name,
                                    !.trials = trials,
                                    !.rejects = 0, !.best_network = N.parameters]
                    ELSE [L2 EXCEPT !.trials = trials, !.rejects = @ + 1]
              N2 == IF accepted THEN N1
                    ELSE [N1 EXCEPT
                            !.parameters = IF L.best_nn_directory = NoDirectory THEN @
                                           ELSE Saved(N1, L.best_nn_directory),
                            !.decays = IF trials > 0 /\ ~is_final THEN @ + 1 ELSE @]
          IN  [learn |-> [L3 EXCEPT !.converged = (trials = 0)], nn |-> N2,
               converged |-> trials = 0]
        ELSE [learn |-> [L1 EXCEPT !.converged = FALSE], nn |-> N1, converged |-> FALSE]

\* save with no RestoreParameters for a rejected checkpoint.
save_NoRestore(L, N, is_final) ==
  IF is_final THEN [learn |-> L, nn |-> N, converged |-> TRUE]
  ELSE
    LET dir_name == L.dir_number
        N1 == [N EXCEPT !.saved = Append(@, N.parameters)]
        L1 == [L EXCEPT !.dir_number = @ + 1]
    IN  IF L.latest_loss_count > 0
        THEN
          LET latest_loss == <<L.latest_loss_sum, L.latest_loss_count>>
              L2 == [L1 EXCEPT !.latest_loss_sum = 0, !.latest_loss_count = 0]
              accepted == LossLess(latest_loss, L.best_loss)
              trials == IF accepted THEN L.newbob_num_trials ELSE L.trials - 1
              L3 == IF accepted
                    THEN [L2 EXCEPT !.best_loss = latest_loss,
                                    !.best_nn_directory = dir_name,
                                    !.trials = trials,
                                    !.rejects = 0, !.best_network = N.parameters]
                    ELSE [L2 EXCEPT !.trials = trials, !.rejects = @ + 1]
              N2 == IF accepted THEN N1
                    ELSE [N1 EXCEPT
                            !.parameters = @,
                            !.decays = IF trials > 0 /\ ~is_final THEN @ + 1 ELSE @]
          IN  [learn |-> [L3 EXCEPT !.converged = (trials = 0)], nn |-> N2,
               converged |-> trials = 0]
        ELSE [learn |-> [L1 EXCEPT !.converged = FALSE], nn |-> N1, converged |-> FALSE]

\* save scaling the learning rate down after an accepted checkpoint too.
save_DecayOnAccept(L, N, is_final) ==
  IF is_final THEN [learn |-> L, nn |-> N, converged |-> TRUE]
  ELSE
    LET dir_name == L.dir_number
        N1 == [N EXCEPT !.saved = Append(@, N.parameters)]
        L1 == [L EXCEPT !.dir_number = @ + 1]
    IN  IF L.latest_loss_count > 0
        THEN
          LET latest_loss == <<L.latest_loss_sum, L.latest_loss_count>>
              L2 == [L1 EXCEPT !.latest_loss_sum = 0, !.latest_loss_count = 0]
              accepted == LossLess(latest_loss, L.best_loss)
              trials == IF accepted THEN L.newbob_num_trials ELSE L.trials - 1
              L3 == IF accepted
                    THEN [L2 EXCEPT !.best_loss = latest_loss,
                                    !.best_nn_directory = dir_name,
                                    !.trials = trials,
                                    !.rejects = 0, !.best_network = N.parameters]
                    ELSE [L2 EXCEPT !.trials = trials, !.rejects = @ + 1]
              N2 == IF accepted THEN [N1 EXCEPT !.decays = @ + 1]
                    ELSE [N1 EXCEPT
                            !.parameters = IF L.best_nn_directory = NoDirectory THEN @
                                           ELSE Saved(N1, L.best_nn_directory),
                            !.decays = IF trials > 0 /\ ~is_final THEN @ + 1 ELSE @]
          IN  [learn |-> [L3 EXCEPT !.converged = (trials = 0)], nn |-> N2,
               converged |-> trials = 0]
        ELSE [learn |-> [L1 EXCEPT !.converged = FALSE], nn |-> N1, converged |-> FALSE]

\* save scaling the learning rate down at every rejection, the last included.
save_DecayAtConvergence(L, N, is_final) ==
  IF is_final THEN [learn |-> L, nn |-> N, converged |-> TRUE]
  ELSE
    LET dir_name == L.dir_number
        N1 == [N EXCEPT !.saved = Append(@, N.parameters)]
        L1 == [L EXCEPT !.dir_number = @ + 1]
    IN  IF L.latest_loss_count > 0
        THEN
          LET latest_loss == <<L.latest_loss_sum, L.latest_loss_count>>
              L2 == [L1 EXCEPT !.latest_loss_sum = 0, !.latest_loss_count = 0]
              accepted == LossLess(latest_loss, L.best_loss)
              trials == IF accepted THEN L.newbob_num_trials ELSE L.trials - 1
              L3 == IF accepted
                    THEN [L2 EXCEPT !.best_loss = latest_loss,
                                    !.best_nn_directory = dir_name,
                                    !.trials = trials,
                                    !.rejects = 0, !.best_network = N.parameters]
                    ELSE [L2 EXCEPT !.trials = trials, !.rejects = @ + 1]
              N2 == IF accepted THEN N1
                    ELSE [N1 EXCEPT
                            !.parameters = IF L.best_nn_directory = NoDirectory THEN @
                                           ELSE Saved(N1, L.best_nn_directory),
                            !.decays = @ + 1]
          IN  [learn |-> [L3 EXCEPT !.converged = (trials = 0)], nn |-> N2,
               converged |-> trials = 0]
        ELSE [learn |-> [L1 EXCEPT !.converged = FALSE], nn |-> N1, converged |-> FALSE]

\* LearnerThink::save (save_only_once not set, newbob_decay != 1.0): the
\* network is saved to the next directory; if a loss has been measured since
\* the last save, the mean is compared with best_loss: a lower one is
\* accepted, anything else is rejected, the best directory (if there is one)
\* is restored, and the trials run down; save returns whether they ran out.
save(L, N, is_final) ==
  IF is_final THEN [learn |-> L, nn |-> N, converged |-> TRUE]
  ELSE
    LET dir_name == L.dir_number
        N1 == [N EXCEPT !.saved = Append(@, N.parameters)]
        L1 == [L EXCEPT !.dir_number = @ + 1]
    IN  IF L.latest_loss_count > 0
        THEN
          LET latest_loss == <<L.latest_loss_sum, L.latest_loss_count>>
              L2 == [L1 EXCEPT !.latest_loss_sum = 0, !.latest_loss_count = 0]
              accepted == LossLess(latest_loss, L.best_loss)
              trials == IF accepted THEN L.newbob_num_trials ELSE L.trials - 1
              L3 == IF accepted
                    THEN [L2 EXCEPT !.best_loss = latest_loss,
                                    !.best_nn_directory = dir_name,
                                    !.trials = trials,
                                    !.rejects = 0, !.best_network = N.parameters]
                    ELSE [L2 EXCEPT !.trials = trials, !.rejects = @ + 1]
              N2 == IF accepted THEN N1
                    ELSE [N1 EXCEPT
                            !.parameters = IF L.best_nn_directory = NoDirectory THEN @
                                           ELSE Saved(N1, L.best_nn_directory),
                            !.decays = IF trials > 0 /\ ~is_final THEN @ + 1 ELSE @]
          IN  [learn |-> [L3 EXCEPT !.converged = (trials = 0)], nn |-> N2,
               converged |-> trials = 0]
        ELSE [learn |-> [L1 EXCEPT !.converged = FALSE], nn |-> N1, converged |-> FALSE]

\* The top of while (true) with thread 0 going on to the update whether
\* total_done has reached next_update_weights or not.
LearnCheck_NoThreshold(t) ==
  /\ lthread[t] = "top"
  /\ LET due == sr.next_update_weights <= sr.total_done
     IN  IF t # 0
         THEN /\ lthread' = [lthread EXCEPT ![t] = IF due THEN "idle" ELSE "try"]
              /\ sr' = sr
         ELSE IF sr.next_update_weights = 0
         THEN /\ lthread' = lthread
              /\ sr' = [sr EXCEPT !.next_update_weights = @ + mini_batch_size]
         ELSE /\ lthread' = [lthread EXCEPT ![t] = "lock"]
              /\ sr' = sr
  /\ learn' = IF learn.stop_flag /\ lthread'[t] \in {"try", "read", "lock"}
              THEN [learn EXCEPT !.late = @ \cup {t}]
              ELSE learn
  /\ UNCHANGED <<nn_mutex, nn>>
  /\ UNCHANGED <<posVars, genVars, toolVars>>

\* The top of while (true): the test of next_update_weights against
\* total_done.  Thread 0 goes on to the update (the first time it only sets
\* the first threshold) or to a record; another thread goes idle or on to
\* try_lock.
LearnCheck(t) ==
  /\ lthread[t] = "top"
  /\ LET due == sr.next_update_weights <= sr.total_done
     IN  IF t # 0
         THEN /\ lthread' = [lthread EXCEPT ![t] = IF due THEN "idle" ELSE "try"]
              /\ sr' = sr
         ELSE IF ~due
         THEN /\ lthread' = [lthread EXCEPT ![t] = "read"]
              /\ sr' = sr
         ELSE IF sr.next_update_weights = 0
         THEN /\ lthread' = lthread
              /\ sr' = [sr EXCEPT !.next_update_weights = @ + mini_batch_size]
         ELSE /\ lthread' = [lthread EXCEPT ![t] = "lock"]
              /\ sr' = sr
  /\ learn' = IF learn.stop_flag /\ lthread'[t] \in {"try", "read", "lock"}
              THEN [learn EXCEPT !.late = @ \cup {t}]
              ELSE learn
  /\ UNCHANGED <<nn_mutex, nn>>
  /\ UNCHANGED <<posVars, genVars, toolVars>>

\* read_lock.try_lock() of a thread other than 0, entered although the lock
\* is held exclusively.
LearnTryLock_Ignore(t) ==
  /\ t # 0
  /\ lthread[t] = "try"
  /\ IF nn_mutex.exclusive
     THEN /\ nn_mutex' = nn_mutex
          /\ lthread' = [lthread EXCEPT ![t] = "read"]
     ELSE /\ nn_mutex' = [nn_mutex EXCEPT !.shared = @ \cup {t}]
          /\ lthread' = [lthread EXCEPT ![t] = "read"]
  /\ UNCHANGED <<sr, learn, nn>>
  /\ UNCHANGED <<posVars, genVars, toolVars>>

\* read_lock.try_lock() of a thread other than 0: the shared lock is taken
\* unless the lock is held exclusively; a thread that fails goes idle.
LearnTryLock(t) ==
  /\ t # 0
  /\ lthread[t] = "try"
  /\ IF nn_mutex.exclusive
     THEN /\ nn_mutex' = nn_mutex
          /\ lthread' = [lthread EXCEPT ![t] = "idle"]
     ELSE /\ nn_mutex' = [nn_mutex EXCEPT !.shared = @ \cup {t}]
          /\ lthread' = [lthread EXCEPT ![t] = "read"]
  /\ UNCHANGED <<sr, learn, nn>>
  /\ UNCHANGED <<posVars, genVars, toolVars>>

\* The idle branch of a thread other than 0: it leaves if stop_flag is set,
\* else task_dispatcher.on_idle runs a queued task if there is one.
LearnIdleStep(t) ==
  /\ t # 0
  /\ lthread[t] = "idle"
  /\ IF learn.stop_flag
     THEN /\ lthread' = [lthread EXCEPT ![t] = "done"]
          /\ learn' = learn
     ELSE IF learn.queue > 0
     THEN /\ lthread' = [lthread EXCEPT ![t] = "task"]
          /\ learn' = [learn EXCEPT !.queue = @ - 1]
     ELSE /\ lthread' = [lthread EXCEPT ![t] = "top"]
          /\ learn' = learn
  /\ UNCHANGED <<nn_mutex, sr, nn>>
  /\ UNCHANGED <<posVars, genVars, toolVars>>

\* A task of calc_loss: a validation record is evaluated with the network
\* and its loss is added; --task_count.
LearnTask(t) ==
  /\ lthread[t] = "task"
  /\ \E loss \in learn.losses :
       learn' = [learn EXCEPT !.test_sum = @ + loss, !.task_count = @ - 1]
  /\ lthread' = [lthread EXCEPT ![t] = IF t = 0 THEN "calc" ELSE "top"]
  /\ UNCHANGED <<nn_mutex, sr, nn>>
  /\ UNCHANGED <<posVars, genVars, toolVars>>

\* The shared lock of a thread is released when read_lock goes out of scope
\* at the end of the iteration.
Unlock(t) == [nn_mutex EXCEPT !.shared = @ \ {t}]

\* go_think: the training threads are started.
StartThreads == [t \in LearnThreads |-> "top"]

\* A record of the input read by thread t: what the thread finds in it.  A
\* record is filtered out silently (its score is beyond eval_limit, or the
\* position has no legal move), or its board does not decode, or the replay
\* of the principal variation meets an illegal move after pv moves, or it
\* is processed to the leaf of a principal variation of pv moves.
RecordInputs ==
  { [key |-> k, outcome |-> o, pv |-> n] :
      k \in learn.keys, o \in {"filtered", "undecodable", "illegal", "example"},
      n \in 0 .. 1 }

\* The number of calls of pos_add_grad for a record: one for every move of
\* the principal variation played when discount_rate is not 0, and one at
\* the leaf unless an illegal move was met.
pos_add_grad_calls(in, discount_rate) ==
  IF in.outcome \in {"filtered", "undecodable"} THEN 0
  ELSE (IF discount_rate # 0 THEN in.pv ELSE 0)
       + (IF in.outcome = "example" THEN 1 ELSE 0)

\* RetryRead and the rest of the iteration with a record of the thread's
\* buffer: read_to_thread_buffer pops the record; a record that is filtered
\* out or does not decode is replaced by the next one, a record with an
\* illegal move ends the iteration, any other adds its example; each call
\* of pos_add_grad counts in total_done.  With an empty buffer the thread
\* enters read_to_thread_buffer_impl and locks the mutex of the pool.  In
\* read_for_mse the record goes to the validation set and its key to
\* sfen_for_mse_hash, and after sfen_for_mse_size records the threads start.
\* The build is the one with EVAL_NNUE, as everywhere in the training: the
\* test of is_for_rmse and of the hash of recent keys is not compiled.
LearnProcess(t) ==
  /\ lthread[t] = "read"
  /\ IF sr.packed_sfens[t] = 0
     THEN /\ sr.mutex = {}
          /\ sr' = [sr EXCEPT !.mutex = {t}]
          /\ lthread' = [lthread EXCEPT ![t] = "pool"]
          /\ UNCHANGED <<learn, nn_mutex>>
     ELSE IF learn.mse_left > 0
     THEN \E key \in MseKeys :
            /\ sr' = [sr EXCEPT !.packed_sfens[t] = @ - 1,
                                !.sfen_for_mse_hash = @ \cup {key}]
            /\ learn' = [learn EXCEPT !.mse_left = @ - 1]
            /\ lthread' = IF learn.mse_left = 1 THEN StartThreads ELSE lthread
            /\ UNCHANGED nn_mutex
     ELSE \E in \in RecordInputs :
            LET n == pos_add_grad_calls(in, learn.discount_rate)
                retry == in.outcome \in {"filtered", "undecodable"}
            IN  /\ sr' = [sr EXCEPT !.packed_sfens[t] = @ - 1, !.total_done = @ + n]
                /\ learn' = IF n = 0 THEN learn
                            ELSE [learn EXCEPT !.added = @ \cup
                                   {[key |-> in.key, illegal |-> in.outcome = "illegal"]}]
                /\ lthread' = [lthread EXCEPT ![t] = IF retry THEN "read" ELSE "top"]
                /\ nn_mutex' = IF retry THEN nn_mutex ELSE Unlock(t)
  /\ UNCHANGED nn
  /\ UNCHANGED <<posVars, genVars, toolVars>>

\* read_to_thread_buffer_impl under the mutex: the front buffer of the pool
\* becomes the buffer of the thread, or the pool is empty; the mutex is
\* released.
LearnPool(t) ==
  /\ lthread[t] = "pool"
  /\ IF sr.pool > 0
     THEN /\ sr' = [sr EXCEPT !.pool = @ - 1, !.packed_sfens[t] = THREAD_BUFFER_SIZE,
                              !.mutex = @ \ {t}]
          /\ lthread' = [lthread EXCEPT ![t] = "read"]
     ELSE /\ sr' = [sr EXCEPT !.mutex = @ \ {t}]
          /\ lthread' = [lthread EXCEPT ![t] = "eof"]
  /\ UNCHANGED <<nn_mutex, learn, nn>>
  /\ UNCHANGED <<posVars, genVars, toolVars>>

\* read_to_thread_buffer_impl after the mutex is released: with
\* end_of_files it returns false, and the thread sets stop_flag and leaves
\* (read_for_mse reports the error and the threads start); else it sleeps
\* and tries the pool again.
LearnEof(t) ==
  /\ lthread[t] = "eof"
  /\ IF ~sr.end_of_files
     THEN /\ lthread' = [lthread EXCEPT ![t] = "read"]
          /\ UNCHANGED <<learn, nn_mutex>>
     ELSE IF learn.mse_left > 0
     THEN /\ lthread' = StartThreads
          /\ learn' = [learn EXCEPT !.mse_left = 0]
          /\ UNCHANGED nn_mutex
     ELSE /\ learn' = [learn EXCEPT !.stop_flag = TRUE]
          /\ lthread' = [lthread EXCEPT ![t] = "done"]
          /\ nn_mutex' = Unlock(t)
  /\ UNCHANGED <<sr, nn>>
  /\ UNCHANGED <<posVars, genVars, toolVars>>

\* file_read_worker from the top of its loop to the chunk read: it sleeps
\* while the pool holds SFEN_READ_SIZE / THREAD_BUFFER_SIZE buffers or more,
\* returns if stop_flag is set, and reads SFEN_READ_SIZE records; when the
\* files end first it sets end_of_files and returns, and the records read
\* for the chunk are dropped.
file_read_worker(R) ==
  IF R.stop_flag THEN [R EXCEPT !.worker = "done"]
  ELSE IF R.files < SFEN_READ_SIZE
  THEN [R EXCEPT !.files = 0, !.dropped = R.files, !.end_of_files = TRUE, !.worker = "done"]
  ELSE [R EXCEPT !.files = @ - SFEN_READ_SIZE, !.worker = "lock"]

\* file_read_worker reading the next chunk whatever the pool holds.
FileRead_NoWait ==
  /\ sr.worker = "wait"
  /\ sr' = file_read_worker(sr)
  /\ UNCHANGED <<lthread, nn_mutex, learn, nn>>
  /\ UNCHANGED <<posVars, genVars, toolVars>>

FileRead ==
  /\ sr.worker = "wait"
  /\ sr.stop_flag \/ sr.pool < SFEN_READ_SIZE \div THREAD_BUFFER_SIZE
  /\ sr' = file_read_worker(sr)
  /\ UNCHANGED <<lthread, nn_mutex, learn, nn>>
  /\ UNCHANGED <<posVars, genVars, toolVars>>

\* file_read_worker going on to the pool without the mutex.
FileLock_NoLock ==
  /\ sr.worker = "lock"
  /\ sr' = [sr EXCEPT !.worker = "push"]
  /\ UNCHANGED <<lthread, nn_mutex, learn, nn>>
  /\ UNCHANGED <<posVars, genVars, toolVars>>

\* file_read_worker with the chunk shuffled and split into buffers: it
\* locks the mutex of the pool.
FileLock ==
  /\ sr.worker = "lock"
  /\ sr.mutex = {}
  /\ sr' = [sr EXCEPT !.mutex = {file_worker_thread}, !.worker = "push"]
  /\ UNCHANGED <<lthread, nn_mutex, learn, nn>>
  /\ UNCHANGED <<posVars, genVars, toolVars>>

\* file_read_worker under the mutex: the buffers of the chunk are pushed
\* to the pool, and the mutex is released.
FilePush ==
  /\ sr.worker = "push"
  /\ sr' = [sr EXCEPT !.pool = @ + SFEN_READ_SIZE \div THREAD_BUFFER_SIZE,
                      !.mutex = @ \ {file_worker_thread}, !.worker = "wait"]
  /\ UNCHANGED <<lthread, nn_mutex, learn, nn>>
  /\ UNCHANGED <<posVars, genVars, toolVars>>

\* lock_guard<shared_timed_mutex> write_lock(nn_mutex) of thread 0: it waits
\* until nobody holds the lock.
LearnLock ==
  /\ lthread[0] = "lock"
  /\ ~nn_mutex.exclusive
  /\ nn_mutex.shared = {}
  /\ nn_mutex' = [nn_mutex EXCEPT !.exclusive = TRUE]
  /\ lthread' = [lthread EXCEPT ![0] = "update"]
  /\ UNCHANGED <<sr, learn, nn>>
  /\ UNCHANGED <<posVars, genVars, toolVars>>

\* Eval::NNUE::UpdateParameters(epoch) under the exclusive lock, the release
\* of the lock, ++epoch and the test of the save interval.
LearnUpdate ==
  /\ lthread[0] = "update"
  /\ nn' = [nn EXCEPT !.parameters = learn.epoch + 1]
  /\ nn_mutex' = [nn_mutex EXCEPT !.exclusive = FALSE]
  /\ learn' = [learn EXCEPT !.epoch = @ + 1]
  /\ IF (sr.save_count + 1) * mini_batch_size >= learn.eval_save_interval
     THEN /\ sr' = [sr EXCEPT !.save_count = 0]
          /\ lthread' = [lthread EXCEPT ![0] = "save"]
     ELSE /\ sr' = [sr EXCEPT !.save_count = @ + 1]
          /\ lthread' = [lthread EXCEPT ![0] = "loss"]
  /\ UNCHANGED <<posVars, genVars, toolVars>>

\* const auto converged = save(); if it is, thread 0 sets both stop flags and
\* leaves.
LearnSave ==
  /\ lthread[0] = "save"
  /\ LET r == save(learn, nn, FALSE)
     IN  /\ nn' = r.nn
         /\ learn' = [r.learn EXCEPT !.stop_flag = @ \/ r.converged]
         /\ sr' = [sr EXCEPT !.stop_flag = @ \/ r.converged]
         /\ lthread' = [lthread EXCEPT ![0] = IF r.converged THEN "done" ELSE "loss"]
  /\ UNCHANGED nn_mutex
  /\ UNCHANGED <<posVars, genVars, toolVars>>

\* The test of the loss interval: calc_loss queues one task per validation
\* record, else the next threshold is set and thread 0 goes on to a record.
LearnLoss ==
  /\ lthread[0] = "loss"
  /\ IF (learn.loss_output_count + 1) * mini_batch_size >= loss_output_interval
     THEN /\ learn' = [learn EXCEPT !.loss_output_count = 0, !.queue = 1,
                                    !.task_count = 1, !.test_sum = 0]
          /\ lthread' = [lthread EXCEPT ![0] = "calc"]
          /\ sr' = sr
     ELSE /\ learn' = [learn EXCEPT !.loss_output_count = @ + 1]
          /\ lthread' = [lthread EXCEPT ![0] = "read"]
          /\ sr' = [sr EXCEPT !.next_update_weights = @ + mini_batch_size]
  /\ UNCHANGED <<nn_mutex, nn>>
  /\ UNCHANGED <<posVars, genVars, toolVars>>

\* calc_loss after the tasks are queued: thread 0 runs a queued task itself
\* (on_idle), and when task_count is 0 it adds the loss to latest_loss_sum
\* and the number of validation records to latest_loss_count; then the next
\* threshold is set.
LearnCalc ==
  /\ lthread[0] = "calc"
  /\ IF learn.queue > 0
     THEN /\ learn' = [learn EXCEPT !.queue = @ - 1]
          /\ lthread' = [lthread EXCEPT ![0] = "task"]
          /\ sr' = sr
     ELSE /\ learn.task_count = 0
          /\ learn' = [learn EXCEPT !.latest_loss_sum = @ + learn.test_sum,
                                    !.latest_loss_count = @ + 1, !.test_sum = 0]
          /\ lthread' = [lthread EXCEPT ![0] = "read"]
          /\ sr' = [sr EXCEPT !.next_update_weights = @ + mini_batch_size]
  /\ UNCHANGED <<nn_mutex, nn>>
  /\ UNCHANGED <<posVars, genVars, toolVars>>

\* learn: the options are read, the file worker is started, the network of
\* EvalDir is the best directory unless SkipLoadingEval, the main thread
\* reads the validation set with read_for_mse (as thread 0 of the reader),
\* the initial loss is the best loss, and go_think starts the threads.
learn_init(threads, records, keys, rates, trialss, intervals, losses, skips) ==
  /\ PosInitAt(4)
  /\ GenIdle
  /\ ToolIdle
  /\ lthread = [t \in threads |-> IF t = 0 THEN "read" ELSE "new"]
  /\ nn_mutex = [exclusive |-> FALSE, shared |-> {}]
  /\ sr = [SfenReader(records) EXCEPT !.worker = "wait"]
  /\ \E trials \in trialss, interval \in intervals, loss \in losses,
        SkipLoadingEval \in skips, rate \in rates :
       /\ learn = [stop_flag |-> FALSE, epoch |-> 0, loss_output_count |-> 0,
                   eval_save_interval |-> interval * mini_batch_size,
                   newbob_num_trials |-> trials, trials |-> trials,
                   best_loss |-> <<loss, 1>>, latest_loss_sum |-> 0, latest_loss_count |-> 0,
                   best_nn_directory |-> IF SkipLoadingEval THEN NoDirectory ELSE EvalDir,
                   dir_number |-> 0, queue |-> 0, task_count |-> 0, test_sum |-> 0,
                   converged |-> FALSE, rejects |-> 0, best_network |-> 0,
                   discount_rate |-> rate, keys |-> keys, losses |-> losses,
                   mse_left |-> sfen_for_mse_size, late |-> {}, added |-> {}]
       /\ nn = [parameters |-> 0, saved |-> << >>, evaldir |-> ~SkipLoadingEval,
                decays |-> 0]

\* learn on one chunk of records, none of them a validation position.
InitLearn ==
  learn_init(0 .. 2, MaxRecords, RecordKeys \ MseKeys, {0}, 1 .. 2, 1 .. 2, Losses, BOOLEAN)

\* learn with two threads on two chunks, with and without discount_rate, a
\* save with every update and one newbob trial.
InitRead ==
  learn_init(0 .. 1, MaxRecords + SFEN_READ_SIZE, RecordKeys, 0 .. 1, {1}, {1}, {1}, {FALSE})

\* learn with two threads on a chunk and a half.
InitTail ==
  learn_init(0 .. 1, MaxRecords + SFEN_READ_SIZE \div 2, RecordKeys, {0}, {1}, {1}, {1}, {FALSE})

NextLearn ==
  \/ \E t \in LearnThreads : LearnCheck(t)
  \/ \E t \in LearnThreads : LearnTryLock(t)
  \/ \E t \in LearnThreads : LearnIdleStep(t)
  \/ \E t \in LearnThreads : LearnTask(t)
  \/ \E t \in LearnThreads : LearnProcess(t)
  \/ \E t \in LearnThreads : LearnPool(t)
  \/ \E t \in LearnThreads : LearnEof(t)
  \/ FileRead
  \/ FileLock
  \/ FilePush
  \/ LearnLock
  \/ LearnUpdate
  \/ LearnSave
  \/ LearnLoss
  \/ LearnCalc

SpecLearn == InitLearn /\ [][NextLearn]_vars

SpecRead == InitRead /\ [][NextLearn]_vars

SpecTail == InitTail /\ [][NextLearn]_vars

\* Either command is run: gensfen with its writer, or learn with its reader.
InitPools == InitGen \/ InitRead

SpecPools == InitPools /\ [][NextGen \/ NextLearn]_vars

(***************************************************************************)
(* The trainer after a parameter update has left any weight and bias in    *)
(* it: QuantizeParameters is called after every update,                    *)
(* DequantizeParameters when the trainer is (re)initialised from the       *)
(* layer.                                                                  *)
(***************************************************************************)
InitQuant ==
  /\ PosInitAt(4) /\ GenIdle /\ LearnIdle
  /\ \E w \in 0 - (WeightTypeMax + WeightExcess) * WeightSteps ..
                (WeightTypeMax + WeightExcess) * WeightSteps,
        b \in 0 - MaxBias * WeightSteps .. MaxBias * WeightSteps :
        trainer = NewTrainer(w, b)
  /\ target_layer = [weights_ |-> 0, biases_ |-> 0]
  /\ ShuffleIdle

Quantize ==
  /\ trainer.op # "quantize"
  /\ LET r == QuantizeParameters(trainer, target_layer)
     IN  trainer' = r.trainer /\ target_layer' = r.target_layer
  /\ UNCHANGED <<posVars, genVars, learnVars, shuf>>

Dequantize ==
  /\ trainer.op = "quantize"
  /\ trainer' = DequantizeParameters(trainer, target_layer)
  /\ UNCHANGED target_layer
  /\ UNCHANGED <<posVars, genVars, learnVars, shuf>>

NextQuant == Quantize \/ Dequantize

SpecQuant == InitQuant /\ [][NextQuant]_vars

(***************************************************************************)
(* shuffle_write on any input files of up to MaxFileRecords records each,  *)
(* with a_count the number of records of each file, as shuffle_files and   *)
(* shuffle_files_quick pass it.                                            *)
(***************************************************************************)
InitShuffle ==
  /\ PosInitAt(4) /\ GenIdle /\ LearnIdle /\ TrainerIdle
  /\ \E files \in [ShuffleFiles -> 0 .. MaxFileRecords] : shuf = NewShuffle(files)

\* A turn of while (sum != 0).
ShuffleTurn ==
  /\ shuf.pc = "loop"
  /\ shuf.sum # 0
  /\ \E r \in prng_rand(shuf.sum) : shuf' = shuffle_write_turn(shuf, r)
  /\ UNCHANGED <<posVars, genVars, learnVars, trainer, target_layer>>

\* The loop ends: the output is closed.
ShuffleClose ==
  /\ shuf.pc = "loop"
  /\ shuf.sum = 0
  /\ shuf' = [shuf EXCEPT !.pc = "done"]
  /\ UNCHANGED <<posVars, genVars, learnVars, trainer, target_layer>>

NextShuffle == ShuffleTurn \/ ShuffleClose

SpecShuffle == InitShuffle /\ [][NextShuffle]_vars

(***************************************************************************)
(* Claims about the training loop.                                         *)
(***************************************************************************)
(***************************************************************************)
(* C6: while thread 0 applies UpdateParameters it holds nn_mutex           *)
(* exclusively and no other thread is processing a record or running a     *)
(* loss task; a thread other than 0 processes a record only while it holds *)
(* the shared lock, and the lock is never held both ways.                  *)
(***************************************************************************)
C6_UpdateExcludesReaders ==
  /\ lthread[0] = "update" =>
       /\ nn_mutex.exclusive
       /\ \A t \in LearnThreads \ {0} : lthread[t] \notin {"read", "pool", "eof", "task"}
  /\ \A t \in LearnThreads \ {0} :
       lthread[t] \in {"read", "pool", "eof"} => t \in nn_mutex.shared
  /\ ~(nn_mutex.exclusive /\ nn_mutex.shared # {})

\* Thread 0 is updating while another thread, which saw no update due, is
\* about to try the lock.
C6_Witness ==
  /\ lthread[0] = "update"
  /\ nn_mutex.exclusive
  /\ \E t \in LearnThreads \ {0} : lthread[t] = "try"

(***************************************************************************)
(* C7: once newbob_num_trials newbob evaluations in a row have found the   *)
(* held-out loss not lower than the best loss, save has returned converged *)
(* and thread 0 has set stop_flag and sr.stop_flag and left its loop.      *)
(***************************************************************************)
C7_ConvergesAfterTrials ==
  learn.rejects >= learn.newbob_num_trials =>
    /\ learn.converged
    /\ learn.stop_flag
    /\ sr.stop_flag
    /\ lthread[0] = "done"

\* Two rejected evaluations in a row with newbob_num_trials = 2, and the
\* training stopped.
C7_Witness ==
  /\ learn.newbob_num_trials = 2
  /\ learn.rejects = 2
  /\ learn.converged /\ learn.stop_flag /\ sr.stop_flag

(***************************************************************************)
(* C8 (as stated): whenever newbob signals convergence, the live           *)
(* parameters are the best-known network, the one the best loss was        *)
(* recorded for.                                                           *)
(***************************************************************************)
C8_BestRestoredAtConvergence ==
  learn.converged => nn.parameters = learn.best_network

(***************************************************************************)
(* C8 (amended): whenever newbob signals convergence and a best directory  *)
(* is known (EvalDir, or the directory of an accepted checkpoint), the     *)
(* live parameters are the network saved there, which is the one the best  *)
(* loss was recorded for; when no best directory is known the parameters   *)
(* are left as the last update made them.                                  *)
(***************************************************************************)
C8_BestDirectoryRestored ==
  learn.converged =>
    IF learn.best_nn_directory # NoDirectory
    THEN /\ nn.parameters = Saved(nn, learn.best_nn_directory)
         /\ nn.parameters = learn.best_network
    ELSE nn.parameters = learn.epoch

\* Convergence after a checkpoint had been accepted: the parameters have
\* gone back from the last update to that checkpoint.
C8_Witness ==
  /\ learn.converged
  /\ learn.best_nn_directory >= 0
  /\ nn.parameters = Saved(nn, learn.best_nn_directory)
  /\ nn.parameters < learn.epoch

C12_StoppedWorkersLeave ==
  [][\A t \in learn.late : sr'.packed_sfens[t] >= sr.packed_sfens[t]]_vars

(***************************************************************************)
(* C13: a record is handed to the SfenWriter only by the flush of a game   *)
(* that has ended (the number of records in the writer grows only by a     *)
(* step of flush_psv in a game whose end is decided), and while a game is  *)
(* being played its records are in a_psv with no game_result assigned and  *)
(* none of them written.                                                   *)
(***************************************************************************)
C13_HandedOnlyAtGameEnd ==
  /\ [](\A t \in GenThreads :
          worker[t].pc = "ply" =>
            /\ worker[t].end = "none"
            /\ worker[t].wrote = 0
            /\ \A i \in 1 .. Len(worker[t].a_psv) : worker[t].a_psv[i].game_result = 0)
  /\ [][HandedCount' > HandedCount =>
          \E t \in GenThreads :
            /\ worker[t].pc = "flush"
            /\ worker[t].end \in {"maxply", "mate", "limit", "draw0"}
            /\ worker'[t].wrote = worker[t].wrote + 1
            /\ HandedCount' = HandedCount + 1]_vars

\* A flush under way after a game with two records and more ended: the
\* first of them is written, another is still in a_psv.
C13_Witness ==
  \E t \in GenThreads :
    /\ worker[t].pc = "flush"
    /\ worker[t].end \in {"mate", "limit"}
    /\ worker[t].wrote >= 1
    /\ worker[t].it >= 1
    /\ HandedCount >= 1

(***************************************************************************)
(* C14: no record whose position key is in sfen_for_mse_hash, the keys of  *)
(* the validation positions, has added a training example.                 *)
(***************************************************************************)
C14_NoValidationExample ==
  \A r \in learn.added : r.key \notin sr.sfen_for_mse_hash

(***************************************************************************)
(* C15: a record whose board does not decode or whose principal variation  *)
(* holds an illegal move is skipped: it has added no training example and  *)
(* has not counted in total_done (every call of pos_add_grad does both, so *)
(* no record of learn.added is one with an illegal move).                  *)
(***************************************************************************)
C15_SkippedRecordsAddNothing ==
  \A r \in learn.added : ~r.illegal

(***************************************************************************)
(* C16: sfen_buffers_pool changes only in a step taken while the writer's  *)
(* mutex is held, packed_sfens_pool only in a step taken while the         *)
(* reader's mutex is held, and neither mutex ever has two holders.         *)
(***************************************************************************)
C16_PoolsUnderMutex ==
  /\ [](Cardinality(sw_mutex) <= 1 /\ Cardinality(sr.mutex) <= 1)
  /\ [][/\ sfen_buffers_pool' # sfen_buffers_pool => sw_mutex # {} /\ sw_mutex' = {}
        /\ sr'.pool # sr.pool => sr.mutex # {} /\ sr'.mutex = {}]_vars

\* The file worker of the writer holds its mutex with buffers in the pool
\* while a generator thread waits for it in finalize; or the file worker of
\* the reader holds its mutex, about to push a chunk, while a training
\* thread waits for it with an empty buffer.
C16_Witness ==
  \/ /\ sw_mutex = {file_worker_thread}
     /\ sfen_buffers_pool # << >>
     /\ \E t \in GenThreads : worker[t].pc = "game" /\ worker[t].quit
  \/ /\ sr.mutex = {file_worker_thread}
     /\ sr.worker = "push"
     /\ \E t \in LearnThreads : lthread[t] = "read" /\ sr.packed_sfens[t] = 0

(***************************************************************************)
(* C17: the file worker of the reader reads records from the files only    *)
(* while the pool holds fewer than K = SFEN_READ_SIZE / THREAD_BUFFER_SIZE *)
(* buffers, and the pool never holds more than 2K - 1 buffers.             *)
(***************************************************************************)
C17_PoolBounded ==
  /\ [](sr.pool <= 2 * (SFEN_READ_SIZE \div THREAD_BUFFER_SIZE) - 1)
  /\ [][sr'.files < sr.files => sr.pool < SFEN_READ_SIZE \div THREAD_BUFFER_SIZE]_vars

\* The pool holds 2K - 1 buffers and the file worker, with records left in
\* the files, waits.
C17_Witness ==
  /\ sr.pool = 2 * (SFEN_READ_SIZE \div THREAD_BUFFER_SIZE) - 1
  /\ sr.worker = "wait"
  /\ ~sr.stop_flag

(***************************************************************************)
(* C18: whenever read_to_thread_buffer returns false to a thread (the step *)
(* of read_to_thread_buffer_impl that finds end_of_files set), no records  *)
(* are left in the files and the pool holds no buffer.                     *)
(***************************************************************************)
C18_FalseOnlyWhenExhausted ==
  [][\A t \in LearnThreads :
       lthread[t] = "eof" /\ lthread'[t] \notin {"eof", "read"} =>
         sr.files = 0 /\ sr.pool = 0]_vars

(***************************************************************************)
(* C19: the parameter update (the step that applies UpdateParameters and   *)
(* increments epoch) is a step of thread 0 alone, taken under the          *)
(* exclusive lock at a moment when total_done has reached                  *)
(* next_update_weights; no other thread is ever at the update.             *)
(***************************************************************************)
C19_UpdateByThread0AtThreshold ==
  /\ [](\A t \in LearnThreads \ {0} : lthread[t] \notin {"lock", "update"})
  /\ [][learn'.epoch # learn.epoch =>
          /\ lthread[0] = "update" /\ lthread'[0] # "update"
          /\ \A t \in LearnThreads \ {0} : lthread'[t] = lthread[t]
          /\ nn_mutex.exclusive
          /\ sr.next_update_weights # 0
          /\ sr.next_update_weights <= sr.total_done
          /\ nn'.parameters = learn'.epoch]_vars

\* Thread 0 is about to apply its second update, the threshold reached by
\* a record another thread processed.
C19_Witness ==
  /\ lthread[0] = "update"
  /\ learn.epoch >= 1
  /\ sr.next_update_weights <= sr.total_done
  /\ \E t \in LearnThreads \ {0} : lthread[t] = "idle"

(***************************************************************************)
(* C20: when save finds the mean held-out loss since the last save lower   *)
(* than best_loss, best_loss becomes that mean, best_nn_directory becomes  *)
(* the directory the network was just saved to (which holds the live       *)
(* parameters), trials is reset to newbob_num_trials, and the learning     *)
(* rate scale and the live parameters are left as they were.               *)
(***************************************************************************)
C20_AcceptedCheckpoint ==
  [][(/\ lthread[0] = "save" /\ lthread'[0] # "save"
      /\ learn.latest_loss_count > 0
      /\ LossLess(<<learn.latest_loss_sum, learn.latest_loss_count>>, learn.best_loss))
     => /\ learn'.best_loss = <<learn.latest_loss_sum, learn.latest_loss_count>>
        /\ learn'.best_nn_directory = learn.dir_number
        /\ Saved(nn', learn'.best_nn_directory) = nn.parameters
        /\ learn'.trials = learn.newbob_num_trials
        /\ nn'.decays = nn.decays
        /\ nn'.parameters = nn.parameters
        /\ lthread'[0] = "loss"]_vars

\* Thread 0 has just accepted a checkpoint after an earlier one was
\* rejected: the trials are back at newbob_num_trials, one decay was made.
C20_Witness ==
  /\ lthread[0] = "loss"
  /\ learn.best_nn_directory >= 1
  /\ learn.best_nn_directory = learn.dir_number - 1
  /\ learn.newbob_num_trials = 2
  /\ learn.trials = learn.newbob_num_trials
  /\ learn.rejects = 0
  /\ nn.decays = 1

(***************************************************************************)
(* C21 (as stated): when save finds the mean held-out loss since the last  *)
(* save not lower than best_loss, a previously-best saved network is       *)
(* restored and the learning rate scale is multiplied by newbob_decay.     *)
(***************************************************************************)
C21_RejectedRestoresAndDecays ==
  [][(/\ lthread[0] = "save" /\ lthread'[0] # "save"
      /\ learn.latest_loss_count > 0
      /\ ~LossLess(<<learn.latest_loss_sum, learn.latest_loss_count>>, learn.best_loss))
     => /\ learn.best_nn_directory # NoDirectory
        /\ nn'.parameters = Saved(nn', learn.best_nn_directory)
        /\ nn'.decays = nn.decays + 1]_vars

(***************************************************************************)
(* C21 (amended): when save finds the mean held-out loss since the last    *)
(* save not lower than best_loss, the network of best_nn_directory is      *)
(* restored if a best directory is known (otherwise the parameters are     *)
(* left alone), best_loss and best_nn_directory are kept, and the learning *)
(* rate scale is multiplied by newbob_decay exactly when trials remain     *)
(* after this rejection; when none remain save reports convergence.        *)
(***************************************************************************)
C21_RejectedRestoresKnownBest ==
  [][(/\ lthread[0] = "save" /\ lthread'[0] # "save"
      /\ learn.latest_loss_count > 0
      /\ ~LossLess(<<learn.latest_loss_sum, learn.latest_loss_count>>, learn.best_loss))
     => /\ nn'.parameters = IF learn.best_nn_directory = NoDirectory
                            THEN nn.parameters
                            ELSE Saved(nn', learn.best_nn_directory)
        /\ learn'.best_loss = learn.best_loss
        /\ learn'.best_nn_directory = learn.best_nn_directory
        /\ learn'.trials = learn.trials - 1
        /\ nn'.decays = IF learn'.trials > 0 THEN nn.decays + 1 ELSE nn.decays
        /\ lthread'[0] = (IF learn'.trials > 0 THEN "loss" ELSE "done")]_vars

\* Thread 0 has just rejected a checkpoint with trials left: the network of
\* the best directory is back in place of the updated one, one decay made.
C21_Witness ==
  /\ lthread[0] = "loss"
  /\ learn.rejects = 1
  /\ learn.trials = 1
  /\ learn.best_nn_directory # NoDirectory
  /\ nn.parameters = Saved(nn, learn.best_nn_directory)
  /\ nn.parameters < learn.epoch
  /\ nn.decays = 1

\* Whether move k of the line played, made from snaps[k], takes a piece.
IsCapture(k) ==
  \/ moves[k].type = ENPASSANT
  \/ moves[k].type # CASTLING /\ snaps[k].board[moves[k].to] # NO_PIECE

(***************************************************************************)
(* C22: the DirtyPiece of every StateInfo made by do_move has dirty_num 1  *)
(* for a move that neither captures nor castles (a quiet promotion         *)
(* included) and 2 for a capture (en passant and capturing promotion       *)
(* included) or castling, the piece number of the capture being the one    *)
(* that stood on the capture square; dirty_num is never greater than 2.    *)
(***************************************************************************)
C22_DirtyNum ==
  /\ \A k \in 1 .. Len(moves) :
       moves[k] # MOVE_NULL =>
         LET dp == st[k + 1].dirtyPiece
         IN  /\ dp.dirty_num = IF IsCapture(k) \/ moves[k].type = CASTLING THEN 2 ELSE 1
             /\ dp.pieceNo[1] = snaps[k].evalList.no[moves[k].from]
             /\ IsCapture(k) =>
                   dp.pieceNo[2] =
                     snaps[k].evalList.no[IF moves[k].type = ENPASSANT
                                            THEN moves[k].to - pawn_push(snaps[k].sideToMove)
                                            ELSE moves[k].to]
  /\ \A k \in 1 .. Len(st) : st[k].dirtyPiece.dirty_num <= 2

\* A quiet move, a castling move and a capture have been made: the three
\* states carry 1, 2 and 2 changed pieces, the castling one the numbers of
\* the king and of a rook.
C22_Witness ==
  /\ Len(moves) = 3
  /\ \A k \in 1 .. 3 : moves[k] # MOVE_NULL
  /\ moves[1].type = NORMAL /\ ~IsCapture(1) /\ st[2].dirtyPiece.dirty_num = 1
  /\ moves[2].type = CASTLING /\ st[3].dirtyPiece.dirty_num = 2
  /\ st[3].dirtyPiece.pieceNo[1] \in {PIECE_NUMBER_KING, PIECE_NUMBER_KING + 1}
  /\ st[3].dirtyPiece.pieceNo[2] < PIECE_NUMBER_KING
  /\ IsCapture(3) /\ st[4].dirtyPiece.dirty_num = 2

(***************************************************************************)
(* C23: after any sequence of do_move, do_null_move and their undo         *)
(* operations, the key, pawn key and material key of the current state     *)
(* equal the keys set_state computes from the piece placement, the piece   *)
(* counts, the castling rights, the side to move and the en passant square *)
(* of the position.                                                        *)
(***************************************************************************)
C23_KeyEqualsSetState ==
  LET cur  == st[Len(st)]
      keys == set_state(board, pieceCount, sideToMove, cur.castlingRights, cur.epSquare)
  IN  /\ cur.key = keys.key
      /\ cur.pawnKey = keys.pawnKey
      /\ cur.materialKey = keys.materialKey

\* A double push has put an en passant square into the key, a null move
\* has taken it out and a further move has been made.
C23_Witness ==
  /\ Len(st) = 4
  /\ st[2].epSquare # SQ_NONE
  /\ moves[2] = MOVE_NULL /\ st[3].epSquare = SQ_NONE
  /\ moves[3] # MOVE_NULL
  /\ st[4].key = set_state(board, pieceCount, sideToMove, st[4].castlingRights,
                           st[4].epSquare).key
  /\ st[4].key # st[1].key

\* The square the piece now on s stood on before move m was made from the
\* board b by the side us.
OriginOf(b, us, m, s) ==
  LET c == CastlingSquares(us, m.from, m.to)
  IN  IF m.type = CASTLING
        THEN IF s = c.to THEN m.from ELSE IF s = c.rto THEN m.to ELSE s
        ELSE IF s = m.to THEN m.from ELSE s

(***************************************************************************)
(* C24: after do_move every piece on the board has the piece number it had *)
(* on its square before the move (a promoted pawn the number of the pawn), *)
(* the kings have the numbers PIECE_NUMBER_KING and PIECE_NUMBER_KING + 1, *)
(* and the number of a captured piece belongs to no square and has the     *)
(* empty feature identity in both piece lists.                             *)
(***************************************************************************)
C24_PieceNumbersKept ==
  (lastOp.op = "do_move" /\ ~evalList.oob) =>
    LET before == snaps[Len(snaps)]
        m      == lastOp.m
        us     == before.sideToMove
        capsq  == IF m.type = ENPASSANT THEN m.to - pawn_push(us) ELSE m.to
        capno  == before.evalList.no[capsq]
    IN  /\ \A s \in Squares :
             board[s] # NO_PIECE =>
               evalList.no[s] = before.evalList.no[OriginOf(before.board, us, m, s)]
        /\ evalList.no[king_square(board, WHITE)] = PIECE_NUMBER_KING
        /\ evalList.no[king_square(board, BLACK)] = PIECE_NUMBER_KING + 1
        /\ st[Len(st)].capturedPiece # NO_PIECE =>
             /\ \A s \in Squares : evalList.no[s] # capno
             /\ evalList.fw[capno] = BONA_PIECE_ZERO
             /\ evalList.fb[capno] = BONA_PIECE_ZERO

(***************************************************************************)
(* C25: every do_move leaves the accumulator of the new StateInfo marked   *)
(* not computed (computed_accumulation and computed_score both false),     *)
(* whatever the flags of the parent were, and leaves the StateInfos below  *)
(* it, the parent with its accumulator and flags included, as they were.   *)
(***************************************************************************)
C25_NewAccumulatorNotComputed ==
  [][(lastOp'.op = "do_move" /\ Len(st') = Len(st) + 1)
     => /\ ~st'[Len(st')].accumulator.computed_accumulation
        /\ ~st'[Len(st')].accumulator.computed_score
        /\ \A k \in 1 .. Len(st) : st'[k] = st[k]]_vars

\* A move has just been made from a position whose accumulator and score
\* were computed: the parent's flags are set, the child's are not.
C25_Witness ==
  /\ lastOp.op = "do_move"
  /\ Len(st) = 3
  /\ st[2].accumulator.computed_accumulation /\ st[2].accumulator.computed_score
  /\ st[2].accumulator.accumulation = << RefreshAccumulator(snaps[2].evalList, WHITE),
                                         RefreshAccumulator(snaps[2].evalList, BLACK) >>
  /\ ~st[3].accumulator.computed_accumulation /\ ~st[3].accumulator.computed_score

IncrementalOk(index_set, ch) ==
  /\ ToSet(ch.removed) \cap ToSet(ch.added) = {}
  /\ NoDuplicate(ch.removed) /\ NoDuplicate(ch.added)
  /\ ToSet(ch.removed) \subseteq index_set
  /\ ToSet(ch.added) \cap (index_set \ ToSet(ch.removed)) = {}

(***************************************************************************)
(* C27: for every move and every perspective that is updated               *)
(* incrementally (HalfKP when the perspective's own king did not move, P   *)
(* always), the removed and added lists are disjoint, every removed index  *)
(* is in the active set before the move, and every added index is absent   *)
(* from that set once the removed indices are taken out.                   *)
(***************************************************************************)
C27_ChangedIndicesConsistent ==
  lastOp.op = "do_move" =>
    \A p \in Colors :
      LET dp == st[Len(st)].dirtyPiece
          el == snaps[Len(snaps)].evalList
          ch == FeatureSetChangedIndices(evalList, dp, p)
      IN  /\ ~ch.reset => IncrementalOk(ToSet(AppendActiveIndices(el, p)), ch)
          /\ IncrementalOk(ToSet(P_AppendActiveIndices(el, p)), P_AppendChangedIndices(dp, p))

\* A pawn has just promoted with a capture: for both perspectives two
\* indices are removed and one is added, by HalfKP and by P.
C27_Witness ==
  /\ lastOp.op = "do_move"
  /\ lastOp.m.type = PROMOTION
  /\ st[Len(st)].capturedPiece # NO_PIECE
  /\ \A p \in Colors :
       LET dp == st[Len(st)].dirtyPiece
           ch == FeatureSetChangedIndices(evalList, dp, p)
       IN  /\ ~ch.reset /\ Len(ch.removed) = 2 /\ Len(ch.added) = 1
           /\ Len(P_AppendChangedIndices(dp, p).removed) = 2
           /\ Len(P_AppendChangedIndices(dp, p).added) = 1
           /\ ToSet(P_AppendChangedIndices(dp, p).added)
                \subseteq ToSet(P_AppendActiveIndices(evalList, p))

\* The squares of board b that hold the piece pc.
SquaresOf(b, pc) == { s \in Squares : b[s] = pc }

\* After a castling of the side us was made (Do) or undone from / to the
\* position P0, the king and the rook stand on their squares and the side
\* has as many kings and rooks as in P0.
CastlingBoardOk(Do, P0, us, m) ==
  LET c == CastlingSquares(us, m.from, m.to)
  IN  /\ board[IF Do THEN c.to ELSE m.from] = make_piece(us, KING)
      /\ board[IF Do THEN c.rto ELSE m.to] = make_piece(us, ROOK)
      /\ Cardinality(SquaresOf(board, make_piece(us, KING))) = 1
      /\ Cardinality(SquaresOf(board, make_piece(us, ROOK)))
           = Cardinality(SquaresOf(P0.board, make_piece(us, ROOK)))

\* ... and they have the piece numbers they had in P0.
CastlingNumbersOk(Do, P0, us, m) ==
  LET c == CastlingSquares(us, m.from, m.to)
  IN  /\ evalList.no[IF Do THEN c.to ELSE m.from] = P0.evalList.no[m.from]
      /\ evalList.no[IF Do THEN c.rto ELSE m.to] = P0.evalList.no[m.to]

(***************************************************************************)
(* C28: after a castling move is made, and after it is undone, the side    *)
(* has exactly one king and its rooks on the correct squares, with the     *)
(* piece numbers the king and the rook had before, also when the origin    *)
(* and destination squares of king and rook overlap.                       *)
(***************************************************************************)
C28_CastlingKeepsPieces ==
  /\ (lastOp.op = "do_move" /\ lastOp.m.type = CASTLING) =>
       LET P0 == snaps[Len(snaps)]
       IN  /\ CastlingBoardOk(TRUE, P0, P0.sideToMove, lastOp.m)
           /\ CastlingNumbersOk(TRUE, P0, P0.sideToMove, lastOp.m)
  /\ (lastOp.op = "undo_move" /\ lastOp.m.type = CASTLING) =>
       /\ CastlingBoardOk(FALSE, lastOp.before, sideToMove, lastOp.m)
       /\ CastlingNumbersOk(FALSE, lastOp.before, sideToMove, lastOp.m)

\* The board, side to move, castling rights and en passant square of the
\* position of the k-th StateInfo of the chain.
PositionAt(k) ==
  [board |-> IF k = Len(st) THEN board ELSE snaps[k].board,
   sideToMove |-> IF k = Len(st) THEN sideToMove ELSE snaps[k].sideToMove,
   castlingRights |-> st[k].castlingRights,
   epSquare |-> st[k].epSquare]

(***************************************************************************)
(* C29: the repetition field of every state made by do_move is nonzero     *)
(* exactly when a state at an even distance i, 4 <= i <= min(rule50,       *)
(* pliesFromNull), down the chain has the same key; its magnitude is the   *)
(* smallest such i, that state is the same position, and the field is      *)
(* negative exactly when the repetition field of that state is nonzero.    *)
(***************************************************************************)
C29_Repetition ==
  \A k \in 2 .. Len(st) :
    moves[k - 1] # MOVE_NULL =>
      LET cur == st[k]
          end == Min(cur.rule50, cur.pliesFromNull)
          D   == { i \in 4 .. end : i % 2 = 0 /\ st[k - i].key = cur.key }
          d   == CHOOSE i \in D : \A j \in D : i <= j
      IN  /\ cur.repetition # 0 <=> D # {}
          /\ D # {} => /\ Abs(cur.repetition) = d
                       /\ cur.repetition < 0 <=> st[k - d].repetition # 0
                       /\ PositionAt(k - d) = PositionAt(k)
          /\ \A i \in 4 .. end :
               (i % 2 = 0 /\ PositionAt(k - i) = PositionAt(k)) => i \in D

\* The starting position has come back a second time after eight knight
\* moves: repetition is 4 after the first return and -4 after the second.
C29_Witness ==
  /\ lastOp.op = "do_move"
  /\ Len(st) = 9
  /\ st[5].repetition = 4
  /\ st[9].repetition = 0 - 4
  /\ st[9].key = st[1].key /\ board = snaps[1].board

(***************************************************************************)
(* C30: in a ply of the generator that reaches the test of the hash table  *)
(* (the game goes on and ply >= write_minply - 1), a position whose key is *)
(* the key stored in its slot is not recorded and the table is left alone; *)
(* for any other key the slot is overwritten with the key and the position *)
(* is appended to the records of the game (which a random move played in   *)
(* the same ply clears again).  The first part states it of every outcome  *)
(* a ply can have in a reachable state, the second of every step taken.    *)
(***************************************************************************)
C30_HashFilter ==
  /\ [](\A t \in GenThreads : \A in \in PlyInputs :
          LET w    == worker[t]
              r    == thread_worker_ply(w, hash, write_minply, write_maxply, in)
              slot == in.key % GENSFEN_HASH_SIZE
          IN  (/\ w.pc = "ply" /\ r.w.pc = "ply"
               /\ r.w.ply = w.ply + 1 /\ w.ply >= write_minply - 1)
              => IF in.key = hash[slot]
                   THEN r.hash = hash /\ r.w.a_psv = << >>
                   ELSE /\ r.hash = [hash EXCEPT ![slot] = in.key]
                        /\ r.w.a_psv =
                             IF in.random THEN << >>
                             ELSE Append(w.a_psv, [score |-> in.score, gamePly |-> w.ply,
                                                   game_result |-> 0, value1 |-> in.value1]))
  /\ [][\A t \in GenThreads :
         (/\ worker[t].pc = "ply" /\ worker'[t].pc = "ply"
          /\ worker'[t].ply = worker[t].ply + 1)
         => LET a        == worker[t].a_psv
                a2       == worker'[t].a_psv
                recorded == /\ Len(a2) = Len(a) + 1
                            /\ SubSeq(a2, 1, Len(a)) = a
                            /\ a2[Len(a2)].gamePly = worker[t].ply
            IN  \E key \in Keys :
                  LET slot == key % GENSFEN_HASH_SIZE
                  IN  IF worker[t].ply < write_minply - 1
                        THEN hash' = hash /\ a2 = << >>
                      ELSE IF key = hash[slot]
                        THEN hash' = hash /\ a2 = << >>
                      ELSE /\ hash' = [hash EXCEPT ![slot] = key]
                           /\ recorded \/ a2 = << >>]_vars

\* One worker has the position with the key of the slot among its records
\* while the other, a ply further on with every position past
\* write_minply, has none.
C30_Witness ==
  /\ write_minply = 1
  /\ hash[0] \in Keys
  /\ \E t, u \in GenThreads :
       /\ worker[t].pc = "ply" /\ worker[t].ply = 1 /\ Len(worker[t].a_psv) = 1
       /\ worker[u].pc = "ply" /\ worker[u].ply = 1 /\ worker[u].a_psv = << >>

(***************************************************************************)
(* C39: after every do_move and undo_move every occupied square has a      *)
(* piece number below PIECE_NUMBER_NB, no two occupied squares have the    *)
(* same number, and the BonaPieces listed for that number (fw and fb) are  *)
(* those of the piece on the square.                                       *)
(***************************************************************************)
C39_EvalListValid ==
  (lastOp.op \in {"do_move", "undo_move"} /\ ~evalList.oob) =>
    LET Occ == { s \in Squares : board[s] # NO_PIECE }
    IN  /\ \A s \in Occ :
             /\ evalList.no[s] < PIECE_NUMBER_NB
             /\ evalList.fw[evalList.no[s]] = kpp_board_index(board[s]).fw + s
             /\ evalList.fb[evalList.no[s]] = kpp_board_index(board[s]).fb + Inv(s)
        /\ \A s, t \in Occ : evalList.no[s] = evalList.no[t] => s = t

(***************************************************************************)
(* Quantization of the trained parameters.                                 *)
(***************************************************************************)
Sign(x) == IF x > 0 THEN 1 ELSE IF x < 0 THEN 0 - 1 ELSE 0

\* C31 as stated: after QuantizeParameters the stored weight lies in the
\* range of WeightType and has the sign of the trained weight.
C31_SaturatesKeepingSign ==
  trainer.op = "quantize" =>
    /\ target_layer.weights_ \in WeightTypeMin .. WeightTypeMax
    /\ Sign(target_layer.weights_) = Sign(trainer.trained_w)

\* C31 amended: after QuantizeParameters the stored weight lies in the range
\* of WeightType, a trained weight beyond kMaxWeightMagnitude is stored as
\* the bound of its sign, and the stored weight never has the opposite sign
\* of the trained weight: it has the same sign, or it is zero for a trained
\* weight of at most half a quantization step.
C31_SaturatesNeverFlipsSign ==
  trainer.op = "quantize" =>
    LET w == trainer.trained_w
        q == target_layer.weights_
    IN  /\ q \in WeightTypeMin .. WeightTypeMax
        /\ w >= kMaxWeightMagnitude => q = WeightTypeMax
        /\ w <= 0 - kMaxWeightMagnitude => q = 0 - WeightTypeMax
        /\ Sign(q) # 0 - Sign(w) \/ Sign(w) = 0
        /\ Sign(q) # Sign(w) => (q = 0 /\ 2 * Abs(w) <= WeightSteps)
        /\ Abs(trainer.weights_) <= kMaxWeightMagnitude

\* A weight trained beyond the bound has been quantized.
C31_Witness ==
  /\ trainer.op = "quantize"
  /\ trainer.trained_w > kMaxWeightMagnitude + WeightSteps
  /\ target_layer.weights_ = WeightTypeMax

\* C32: for a weight and a bias within the representable range,
\* DequantizeParameters after QuantizeParameters reproduces the trained value
\* to within one quantization step.
C32_RoundTripWithinOneStep ==
  trainer.op = "dequantize" =>
    /\ Abs(trainer.trained_w) <= kMaxWeightMagnitude =>
         Abs(trainer.weights_ - trainer.trained_w) <= WeightSteps
    /\ Abs(trainer.biases_ - trainer.trained_b) <= WeightSteps

\* A weight within the range that is no multiple of the step has made the
\* round trip and come back changed.
C32_Witness ==
  /\ trainer.op = "dequantize"
  /\ Abs(trainer.trained_w) < kMaxWeightMagnitude
  /\ trainer.weights_ # trainer.trained_w
  /\ trainer.biases_ # trainer.trained_b

(***************************************************************************)
(* The writer at shutdown.                                                 *)
(***************************************************************************)
\* The number of times record r occurs in sequence q.
Occ(q, r) == Cardinality({ i \in DOMAIN q : q[i] = r })

RECURSIVE SumOcc(_, _, _)
SumOcc(bufs, T, r) ==
  IF T = {} THEN 0
  ELSE LET t == CHOOSE x \in T : TRUE IN Occ(bufs[t], r) + SumOcc(bufs, T \ {t}, r)

\* The number of times r occurs in what the writer holds: the threads'
\* buffers, the pool and the file.
HeldOcc(bufs, pool, file, r) ==
  SumOcc(bufs, DOMAIN bufs, r) + Occ(Flatten(pool), r) + Occ(file, r)

\* ~SfenWriter has returned: finished is set and file_write_worker has left
\* its loop, outside the block that holds the mutex.
WriterClosed == finished /\ sfen_buffers_pool = << >> /\ sw_mutex = {}

\* The records that a step of flush_psv passes to write(), as a set of at
\* most one record.
PassedToWrite ==
  { worker'[t].a_psv[worker[t].it] :
      t \in { u \in GenThreads : worker[u].pc = "flush"
                                  /\ worker'[u].wrote = worker[u].wrote + 1 } }

\* C33: every step keeps each record the writer holds (in a thread buffer,
\* in the pool or in the file) exactly as many times as it was passed to
\* write(); and once every thread has called finalize and ~SfenWriter has
\* returned, every thread buffer is null and the pool is empty, so that
\* each record passed to write() is in the file exactly once per call.
C33_WrittenExactlyOnce ==
  /\ [](WriterClosed =>
          /\ \A t \in GenThreads : worker[t].pc = "done" /\ sfen_buffers[t] = << >>
          /\ sfen_buffers_pool = << >>
          /\ HandedCount = Len(fs))
  /\ [][(<<sfen_buffers, sfen_buffers_pool, fs>>' # <<sfen_buffers, sfen_buffers_pool, fs>>
           \/ PassedToWrite # {}) =>
        \A r \in Handed \cup Handed' \cup PassedToWrite :
          HeldOcc(sfen_buffers', sfen_buffers_pool', fs', r) =
            HeldOcc(sfen_buffers, sfen_buffers_pool, fs, r)
              + (IF r \in PassedToWrite THEN 1 ELSE 0)]_vars

\* ~SfenWriter has returned with MaxLoop records in the file, some of which
\* reached the pool through finalize.
C33_Witness ==
  /\ WriterClosed
  /\ Len(fs) = MaxLoop
  /\ \E t \in GenThreads : worker[t].wrote = 1

(***************************************************************************)
(* Termination of the generator.  Every thread that can take a step        *)
(* eventually takes one (the threads are scheduled by the operating        *)
(* system); what the search returns and which plies are random is left     *)
(* open.                                                                   *)
(***************************************************************************)
WorkerStep(t) ==
  \/ GenNewGame(t) \/ GenPly(t) \/ GenFlush(t) \/ GenWriteLock(t) \/ GenWritePush(t)
  \/ GenFinalize(t) \/ GenFinalizePool(t)

GenFairness ==
  /\ \A t \in 0 .. 1 : WF_vars(WorkerStep(t))
  /\ WF_vars(FileWriteLock \/ FileWriteWorker)
  /\ WF_vars(GenJoin)

SpecGenFair == InitGen /\ [][NextGen]_vars /\ GenFairness

\* C34: once the loop counter is exhausted, every worker eventually has its
\* quit flag set, has left its game loop and has called finalize.
C34_ExhaustedLeadsToQuit ==
  (loop_count >= loop_max) ~>
    (\A t \in 0 .. 1 : worker[t].quit /\ worker[t].pc = "done")

(***************************************************************************)
(* The records buffered for a game.                                        *)
(***************************************************************************)
\* The records of a_psv are for consecutive plies, the last one for the ply
\* before ply.
ConsecutiveUpTo(a_psv, ply) ==
  \A i \in 1 .. Len(a_psv) : a_psv[i].gamePly = ply - 1 - (Len(a_psv) - i)

\* C35: whenever flush_psv runs, the buffered records are for consecutive
\* plies that end at the ply before the terminal position; and a ply that
\* plays a random move, finds its position in the duplicate hash or lies
\* below the write_minply cutoff leaves the buffer empty, whatever was in
\* it, while every other ply that goes on appends its record.
C35_BufferConsecutive ==
  \A t \in GenThreads :
    LET w == worker[t] IN
    /\ w.pc \in {"flush", "write", "push"} => ConsecutiveUpTo(w.a_psv, w.ply)
    /\ w.pc = "ply" =>
         \A in \in PlyInputs :
           LET r == thread_worker_ply(w, hash, write_minply, write_maxply, in).w
               cut == \/ in.random
                      \/ w.ply < write_minply - 1
                      \/ in.key = hash[in.key % GENSFEN_HASH_SIZE]
           IN  /\ ConsecutiveUpTo(r.a_psv, r.ply)
               /\ r.pc = "ply" =>
                    /\ r.ply = w.ply + 1
                    /\ cut => r.a_psv = << >>
                    /\ ~cut => /\ Len(r.a_psv) = Len(w.a_psv) + 1
                               /\ SubSeq(r.a_psv, 1, Len(w.a_psv)) = w.a_psv

\* A flush of three records, in a game whose buffer was emptied before.
C35_Witness ==
  \E t \in GenThreads :
    /\ worker[t].pc = "flush"
    /\ Len(worker[t].a_psv) = 3
    /\ worker[t].a_psv[1].gamePly > write_minply - 1

(***************************************************************************)
(* The other threads while thread 0 saves.                                 *)
(***************************************************************************)
\* C36: while thread 0 is in save() (the network is saved, the newbob step
\* is taken and RestoreParameters may run), no other thread holds the
\* shared lock of the network for a record and none runs a task of
\* calc_loss.
C36_OthersStoppedDuringSave ==
  lthread[0] = "save" =>
    \A t \in LearnThreads \ {0} :
      /\ t \notin nn_mutex.shared
      /\ lthread[t] \notin {"read", "pool", "eof", "task"}

(***************************************************************************)
(* The records of the input files.                                         *)
(***************************************************************************)
\* Exhaustion has been signalled: read_to_thread_buffer returned false to a
\* training thread, which set stop_flag (convergence sets the flag of the
\* reader as well).
ExhaustionSignalled == learn.stop_flag /\ ~sr.stop_flag

\* C37: when exhaustion is signalled every record of the input files has
\* been delivered to a training thread: none is left in the files, in the
\* hands of the file worker, in the pool or in the buffer of a thread, and
\* none was dropped.
C37_AllDeliveredAtExhaustion ==
  ExhaustionSignalled =>
    /\ sr.files = 0 /\ sr.dropped = 0
    /\ sr.worker \notin {"lock", "push"}
    /\ sr.pool = 0
    /\ \A t \in LearnThreads : sr.packed_sfens[t] = 0

(***************************************************************************)
(* Termination of the training.  Every thread that can take a step again   *)
(* and again eventually takes one: the operating system schedules the      *)
(* threads, and a thread that waits for a mutex or for the lock of the     *)
(* network gets it when it is free often enough.                           *)
(***************************************************************************)
LearnStep(t) ==
  \/ LearnCheck(t) \/ LearnTryLock(t) \/ LearnIdleStep(t) \/ LearnTask(t)
  \/ LearnProcess(t) \/ LearnPool(t) \/ LearnEof(t)
  \/ (t = 0 /\ (LearnLock \/ LearnUpdate \/ LearnSave \/ LearnLoss \/ LearnCalc))

LearnFairness ==
  /\ \A t \in 0 .. 1 : SF_vars(LearnStep(t))
  /\ SF_vars(FileRead \/ FileLock \/ FilePush)

SpecReadFair == InitRead /\ [][NextLearn]_vars /\ LearnFairness

\* Every training thread has left thread_worker and the file worker has
\* returned, so that the joins at shutdown complete.
AllJoined ==
  /\ \A t \in LearnThreads : lthread[t] = "done"
  /\ sr.worker = "done"

\* C38: once the stop flag is set, by exhaustion of the input or by
\* convergence, every training thread and the file worker eventually
\* terminate.
C38_StopLeadsToJoin == learn.stop_flag ~> AllJoined

(***************************************************************************)
(* shuffle_write.                                                          *)
(***************************************************************************)
\* The records of the input files.
InputRecords ==
  { x \in (DOMAIN shuf.files) \X (0 .. MaxFileRecords - 1) : x[2] < shuf.files[x[1]] }

\* C40: shuffle_write never indexes a_count past the last file; the turns
\* taken and the turns left always add up to the sum of a_count, so the
\* loop ends after exactly that many turns; no record is written twice
\* and no file gives more records than its count; and when the loop has
\* ended every file has given exactly a_count[n] records and every input
\* record has been written exactly once.
C40_ShuffleWrite ==
  shuf.pc # "idle" =>
    LET N == DOMAIN shuf.files IN
    /\ ~shuf.past
    /\ shuf.sum >= 0
    /\ shuf.iterations + shuf.sum = SumCount(shuf.files, N)
    /\ shuf.sum = SumCount(shuf.a_count, N)
    /\ \A n \in N : shuf.a_count[n] >= 0 /\ shuf.afs[n] + shuf.a_count[n] = shuf.files[n]
    /\ shuf.fs \subseteq InputRecords
    /\ shuf.write_sfen_count = Cardinality(shuf.fs)
    /\ shuf.write_sfen_count = shuf.iterations
    /\ shuf.pc = "done" =>
         /\ shuf.iterations = SumCount(shuf.files, N)
         /\ \A n \in N : shuf.afs[n] = shuf.files[n]
         /\ shuf.fs = InputRecords

\* shuffle_write has ended on files of different sizes, one of them empty
\* and one of them full.
C40_Witness ==
  /\ shuf.pc = "done"
  /\ shuf.iterations >= MaxFileRecords + 1
  /\ \E n, m \in DOMAIN shuf.files : shuf.files[n] = 0 /\ shuf.files[m] = MaxFileRecords

====
